---- MODULE Spec2Model ----
(***************************************************************************)
(* State-machine model of the atltvhead.github.io front-end scripts:       *)
(*   - the OBJ viewer            (src/js/viewer.js)                        *)
(*   - the gemstone viewer       (src/unnamed/part_003)                    *)
(*   - the thin-film viewer      (src/unnamed/part_001)                    *)
(*   - main.js navigation/form   (src/unnamed/part_000)                    *)
(*   - ProgressiveImageLoader    (src/unnamed/part_006)                    *)
(*   - ThreeScene, ModelLoader   (src/unnamed/part_004,                    *)
(*                                src/js/modelLoader.js)                   *)
(*   - AnimationController       (src/unnamed/part_005)                    *)
(*                                                                         *)
(* Every script runs on its own page, so every page has its own            *)
(* specification (SpecViewer, SpecGem, SpecFilm, SpecNav, SpecForm,        *)
(* SpecImages; SpecWheel and SpecPanel for the viewers' wheel and info     *)
(* panel; SpecLoader, SpecAnim and SpecTween for the scene page;           *)
(* SpecGemColor for getGemColor and SpecTweenValues for the values of two  *)
(* tweens on their own) over one shared set of variables; a page's         *)
(* specification leaves the variables of the other pages at their idle     *)
(* values.                                                                 *)
(*                                                                         *)
(* Conventions                                                             *)
(*   - A DOM element is named by the selector the code looks it up with.   *)
(*     `present` is the set of elements the page contains; text, classes   *)
(*     and style are functions over `present` only: an absent element has  *)
(*     no text, no class list and no style.                                *)
(*   - A string the code builds by concatenation is a sequence of tokens,  *)
(*     so that `#${current}` is <<"#">> \o current.                        *)
(*   - A handler that dereferences an absent element (null) raises a       *)
(*     TypeError there: the effects before that statement are kept, the    *)
(*     ones after it are lost, and `raised` records the uncaught error.    *)
(*   - scrollProgress is kept in hundredths (0.02 is 2, 1 is 100); colour  *)
(*     channels are kept in units of 1/25500 (255 * 100), which makes the  *)
(*     linear interpolation exact.                                         *)
(*   - Positions and scales of the scene page are integers in units of     *)
(*     1/Unit, with Unit chosen so that every value a tween writes on the  *)
(*     clock's grid of TickMs is a whole number of units. Where the        *)
(*     rounding of Numbers matters (SpecTweenValues), values are IEEE 754  *)
(*     binary64 numbers with every operation rounded to nearest.           *)
(***************************************************************************)
EXTENDS Integers, Sequences, FiniteSets, TLC

VARIABLES
    \* ---- the page (DOM) and the event loop
    present,            \* elements the page contains
    text,               \* textContent of every present element
    classes,            \* classList of every present element
    style,              \* the style properties the scripts write
    raised,             \* some handler ended in an uncaught TypeError
    defaultPrevented,   \* the last dispatched event had preventDefault() called
    console,            \* console.log / console.error entries, in order
    timers,             \* pending setTimeout callbacks
    \* ---- ModelViewer (viewer.js and its gemstone / thin-film variants)
    three,              \* typeof THREE !== 'undefined'
    viewer,             \* a ModelViewer has been constructed
    model,              \* this.model: "null", "object" (the OBJ) or "group"
    scene,              \* the models this.scene contains (lights left out)
    load,               \* the loader.load request: "none", "pending", "success", "error"
    animating,          \* animate() has started its requestAnimationFrame loop
    domReady,           \* the DOMContentLoaded listeners have run
    scrollProgress,     \* gemstone viewer: this.scrollProgress, in hundredths
    gemMaterials,       \* gemstone viewer: colour of every registered material
    filmThickness,      \* thin-film viewer: this.filmThickness, in nanometres
    iridescenceMaterials, \* thin-film viewer: fresnelMap.filmThickness of every material
    objBox,             \* bounding box of the loaded OBJ as the file gives it
    objPosition,        \* object.position of the loaded OBJ, in halves
    objScale,           \* object.scale of the loaded OBJ (uniform), a fraction <<n, d>>
    \* ---- main.js: navigation
    linkHref,           \* href of every .nav-link, in document order
    sectionTop,         \* offsetTop of every .section, in document order
    linkActive,         \* the .nav-link elements that carry class 'active'
    pageYOffset,        \* window.pageYOffset (= window.scrollY)
    \* ---- main.js: contact form
    fields,             \* value of #name, #email and #message
    alerts,             \* number of alert() dialogs shown
    navigations,        \* number of default form submissions the browser performed
    \* ---- ProgressiveImageLoader
    hasIO,              \* 'IntersectionObserver' in window
    images,             \* this.images: the img[data-src] found by setupImages
    dataSrc,            \* the images that (still) have a data-src attribute
    observed,           \* the images the IntersectionObserver observes
    loadStarts,         \* per image: how often a full-resolution load was started
    preloading,         \* per image: preloads (tempImg) still in flight
    imgLoaded,          \* the images with class 'loaded' and src = the full source
    imgFailed,          \* the images whose preload ended in onerror
    imgSrc,             \* per image: its src attribute
    \* ---- the 3D background: scene.js, modelLoader.js, animations.js
    scriptsRun,         \* how many of the three scripts have run
    hasGLTF,            \* typeof THREE.GLTFLoader !== 'undefined'
    threeScene,         \* threeScene is defined
    modelLoader,        \* modelLoader is defined
    loader,             \* modelLoader.loader is not null
    models,             \* modelLoader.models: the own properties of the registry
    sceneObjects,       \* the objects addObject put into threeScene.scene
    geometry,           \* per created object: its geometry, or "gltf"
    meshPosition,       \* per created object: object.position, in 1/Unit
    meshScale,          \* per created object: object.scale (uniform), in 1/Unit
    loads,              \* the loadModel calls: name, promise state, object
    controller,         \* animationController is defined
    currentSection,     \* animationController.currentSection
    animations,         \* animationController.animations
    tweens,             \* the animateModelTo calls, in order
    now,                \* Date.now(), in ticks
    frameQueue,         \* requestAnimationFrame callbacks still to run in this frame
    written,            \* the properties written since this frame began, by writer
    \* ---- a function applied on its own
    fnArg,              \* the argument of the call
    fnResult            \* the value it returned; <<>> before the call

domVars    == <<present, text, classes, style>>
loopVars   == <<raised, defaultPrevented, console, timers>>
viewerVars == <<three, viewer, model, scene, load, animating, domReady>>
gemVars    == <<scrollProgress, gemMaterials>>
filmVars   == <<filmThickness, iridescenceMaterials>>
objVars    == <<objBox, objPosition, objScale>>

navVars    == <<linkHref, sectionTop, linkActive, pageYOffset>>
formVars   == <<fields, alerts, navigations>>
imgVars    == <<hasIO, images, dataSrc, observed, loadStarts, preloading, imgLoaded, imgFailed,
               imgSrc>>
fnVars     == <<fnArg, fnResult>>
setupVars  == <<scriptsRun, hasGLTF, threeScene, modelLoader, loader, controller>>
registryVars == <<models, sceneObjects, geometry, meshPosition, meshScale, loads>>
animVars   == <<currentSection, animations, tweens, now, frameQueue, written>>
scenePage  == <<setupVars, registryVars, animVars>>
viewerPage == <<viewerVars, gemVars, filmVars, objVars>>
mainPage   == <<navVars, formVars, imgVars>>

vars == <<domVars, loopVars, viewerVars, gemVars, filmVars, objVars,
         navVars, formVars, imgVars, fnVars, scenePage>>

----------------------------------------------------------------------------
\* Bounds of the model

\* largest number of meshes in a loaded OBJ file
MaxMeshes == 2
\* number of .nav-link elements of the page
NLinks == 2
\* number of times the contact form is submitted
MaxSubmits == 2
\* number of <img> elements of the page
NImages == 3

----------------------------------------------------------------------------
\* Helpers

Max(a, b) == IF a >= b THEN a ELSE b
Min(a, b) == IF a <= b THEN a ELSE b

\* el.textContent = v, el.style[k] = v, el.classList.add(c) on a present element
SetText(t, e, v)  == [t EXCEPT ![e] = v]
SetStyle(s, e, v) == [s EXCEPT ![e] = v]
AddClass(c, e, k) == [c EXCEPT ![e] = @ \cup {k}]

\* el.classList.remove(k) and el.classList.toggle(k) on a present element
RemoveClass(c, e, k) == [c EXCEPT ![e] = @ \ {k}]
ToggleClass(c, e, k) == [c EXCEPT ![e] = IF k \in @ THEN @ \ {k} ELSE @ \cup {k}]

\* the idle values of the variables a page does not use
NoDom    == /\ text = [e \in present |-> <<>>]
            /\ classes = [e \in present |-> {}]
            /\ style = [e \in present |-> <<>>]
NoLoop   == /\ raised = FALSE
            /\ defaultPrevented = FALSE
            /\ console = <<>>
            /\ timers = {}
NoViewer == /\ three = TRUE
            /\ viewer = FALSE
            /\ model = "null"
            /\ scene = {}
            /\ load = "none"
            /\ animating = FALSE
            /\ domReady = FALSE
NoGem    == /\ scrollProgress = 0
            /\ gemMaterials = <<>>
NoFilm   == /\ filmThickness = 0
            /\ iridescenceMaterials = <<>>
NoObject == /\ objBox = [min |-> <<0, 0, 0>>, max |-> <<0, 0, 0>>]
            /\ objPosition = <<0, 0, 0>>
            /\ objScale = <<1, 1>>
NoCall   == /\ fnArg = 0
            /\ fnResult = <<>>
NoScene  == /\ scriptsRun = 0
            /\ hasGLTF = FALSE
            /\ threeScene = FALSE
            /\ modelLoader = FALSE
            /\ loader = FALSE
            /\ controller = FALSE
            /\ models = <<>>
            /\ sceneObjects = {}
            /\ geometry = <<>>
            /\ meshPosition = <<>>
            /\ meshScale = <<>>
            /\ loads = <<>>
            /\ currentSection = ""
            /\ animations = <<>>
            /\ tweens = <<>>
            /\ now = 0
            /\ frameQueue = <<>>
            /\ written = {}
NoNav    == /\ linkHref = <<>>
            /\ sectionTop = <<>>
            /\ linkActive = {}
            /\ pageYOffset = 0
NoForm   == /\ fields = <<>>
            /\ alerts = 0
            /\ navigations = 0
NoImages == /\ hasIO = TRUE
            /\ images = {}
            /\ dataSrc = {}
            /\ observed = {}
            /\ loadStarts = <<>>
            /\ preloading = <<>>
            /\ imgLoaded = {}
            /\ imgFailed = {}
            /\ imgSrc = <<>>

----------------------------------------------------------------------------
\* Loading screen, shared by the three versions of ModelViewer.loadModel

LoadingElements == {"loading-screen", "loading-text", "progress-bar-fill"}

\* percentages the progress callback reports
Percents == {0, 25, 50, 75, 100}

SuccessDelay == 500
ErrorDelay == 1000

\* what the error callback logs first
NotFoundLog == <<"log", "Custom model not found, loading default geometry">>

\* ---- centring and scaling of a loaded OBJ (the same lines in the three viewers)

\* bounding boxes of the OBJ files that are loaded: a cube centred on the
\* origin, two off-centre boxes (largest dimension 6 and 3) and a single point
Boxes == { [min |-> <<-1, -1, -1>>, max |-> <<1, 1, 1>>],
           [min |-> <<0, 0, 0>>,    max |-> <<6, 2, 2>>],
           [min |-> <<1, 1, 1>>,    max |-> <<4, 2, 2>>],
           [min |-> <<1, 1, 1>>,    max |-> <<1, 1, 1>>] }

Axes == 1..3

\* box.getCenter(), in halves
Center2(box) == [i \in Axes |-> box.min[i] + box.max[i]]

\* box.getSize()
Size(box) == [i \in Axes |-> box.max[i] - box.min[i]]

\* Math.max(size.x, size.y, size.z)
MaxDim(box) == Max(Size(box)[1], Max(Size(box)[2], Size(box)[3]))

\* the size the model is scaled to: scale = 3 / maxDim
FitSize == 3

\* object.position.sub(center), then object.scale.setScalar(3 / maxDim); a
\* largest dimension of 0 gives the fraction <<3, 0>> (Infinity)
FitObject(box) ==
    /\ objBox' = box
    /\ objPosition' = [i \in Axes |-> objPosition[i] - Center2(box)[i]]
    /\ objScale' = <<FitSize, MaxDim(box)>>

\* The world-space bounding box of the object: a vertex v of the file is
\* drawn at position + scale * v. With scale = n/d and position in halves,
\* both corners are kept as numerators over 2 * d.
WorldMin(i) == objPosition[i] * objScale[2] + 2 * objScale[1] * objBox.min[i]
WorldMax(i) == objPosition[i] * objScale[2] + 2 * objScale[1] * objBox.max[i]

\* the setTimeout callback of both load outcomes:
\*   loadingScreen.classList.add('hidden')
HideLoadingScreen(t) ==
    /\ t \in timers
    /\ timers' = timers \ {t}
    /\ IF "loading-screen" \in present
         THEN /\ classes' = AddClass(classes, "loading-screen", "hidden")
              /\ UNCHANGED raised
         ELSE /\ raised' = TRUE
              /\ UNCHANGED classes
    /\ UNCHANGED <<present, text, style, defaultPrevented, console>>
    /\ UNCHANGED <<viewerVars, gemVars, filmVars>>
    /\ UNCHANGED mainPage
    /\ UNCHANGED objVars
    /\ UNCHANGED fnVars
    /\ UNCHANGED scenePage

\* the progress callback: progressBar.style.width, then loadingText.textContent
LoadProgress(pct) ==
    /\ viewer /\ load = "pending"
    /\ IF "progress-bar-fill" \notin present
         THEN /\ raised' = TRUE
              /\ UNCHANGED <<text, style>>
         ELSE /\ style' = SetStyle(style, "progress-bar-fill", <<"width", pct, "%">>)
              /\ IF "loading-text" \notin present
                   THEN /\ raised' = TRUE
                        /\ UNCHANGED text
                   ELSE /\ text' = SetText(text, "loading-text", <<"Loading... ", pct, "%">>)
                        /\ UNCHANGED raised
    /\ UNCHANGED <<present, classes, defaultPrevented, console, timers>>
    /\ UNCHANGED <<viewerVars, gemVars, filmVars>>
    /\ UNCHANGED mainPage
    /\ UNCHANGED objVars
    /\ UNCHANGED fnVars
    /\ UNCHANGED scenePage

----------------------------------------------------------------------------
\* Gemstone viewer (part_003)

GemElements == LoadingElements \cup {"canvas-container", "gem-state-indicator"}

\* THREE.Color(0xffffff), (0xff1744), (0x2979ff) as <<r, g, b>> in 0..255
crystalColor  == <<255, 255, 255>>
rubyColor     == <<255, 23, 68>>
sapphireColor == <<41, 121, 255>>

\* color.copy(a).lerp(b, t): channel a + (b - a) * t, with t in hundredths and
\* the result in units of 1/25500
Lerp(a, b, t) == [i \in 1..3 |-> a[i] * 100 + (b[i] - a[i]) * t]

getGemColorUnscaled(progress) ==
    IF progress <= 50
      THEN Lerp(crystalColor, rubyColor, progress)
      ELSE Lerp(rubyColor, sapphireColor, progress - 50)

getGemColor(progress) ==
    IF progress <= 50
      THEN Lerp(crystalColor, rubyColor, progress * 2)
      ELSE Lerp(rubyColor, sapphireColor, (progress - 50) * 2)

\* Math.round(color.r * 255) of a channel kept in units of 1/25500
RoundChannel(c) == (c + 50) \div 100

stateName(progress) ==
    IF progress < 25 THEN "Crystal"
    ELSE IF progress < 75 THEN "Ruby"
    ELSE "Sapphire"

HueOfNoUpdate(mats, progress) == mats

\* updateGemHue(progress): the colour of every registered material
HueOf(mats, progress) == [i \in DOMAIN mats |-> getGemColor(progress)]

\* updateColorIndicator(progress) on the indicator's text and style
IndicatorText(t, progress) ==
    IF "gem-state-indicator" \in present
      THEN SetText(t, "gem-state-indicator", <<stateName(progress)>>)
      ELSE t
IndicatorStyle(s, progress) ==
    IF "gem-state-indicator" \in present
      THEN SetStyle(s, "gem-state-indicator",
                    <<"color", [i \in 1..3 |-> RoundChannel(getGemColor(progress)[i])]>>)
      ELSE s

\* Math.max(0, Math.min(1, x)) in hundredths
ScrollStep == 2
ClampProgressUnbounded(x) == Max(0, x)
ClampProgress(x) == Max(0, Min(100, x))

\* the wheel listener on #canvas-container
GemWheelAnyKey(shiftKey, deltaY) ==
    /\ viewer
    /\ "canvas-container" \in present
    /\ LET delta == IF deltaY > 0 THEN ScrollStep ELSE -ScrollStep
           p == ClampProgress(scrollProgress + delta)
       IN /\ defaultPrevented' = TRUE
          /\ scrollProgress' = p
          /\ gemMaterials' = HueOf(gemMaterials, p)
          /\ text' = IndicatorText(text, p)
          /\ style' = IndicatorStyle(style, p)
    /\ UNCHANGED <<present, classes, raised, console, timers>>
    /\ UNCHANGED <<viewerVars, filmVars>>
    /\ UNCHANGED mainPage
    /\ UNCHANGED objVars
    /\ UNCHANGED fnVars
    /\ UNCHANGED scenePage

GemWheel(shiftKey, deltaY) ==
    /\ viewer
    /\ "canvas-container" \in present
    /\ IF shiftKey
         THEN LET delta == IF deltaY > 0 THEN ScrollStep ELSE -ScrollStep
                  p == ClampProgress(scrollProgress + delta)
              IN /\ defaultPrevented' = TRUE
                 /\ scrollProgress' = p
                 /\ gemMaterials' = HueOf(gemMaterials, p)
                 /\ text' = IndicatorText(text, p)
                 /\ style' = IndicatorStyle(style, p)
         ELSE /\ defaultPrevented' = FALSE
              /\ UNCHANGED <<scrollProgress, gemMaterials, text, style>>
    /\ UNCHANGED <<present, classes, raised, console, timers>>
    /\ UNCHANGED <<viewerVars, filmVars>>
    /\ UNCHANGED mainPage
    /\ UNCHANGED objVars
    /\ UNCHANGED fnVars
    /\ UNCHANGED scenePage

\* createGemMaterial(this.scrollProgress), called n times
PushGems(mats, n) == mats \o [i \in 1..n |-> getGemColor(scrollProgress)]

\* materials loadDefaultGeometry creates: the gem and the four small gems
DefaultGems == 5

\* loadModel's success callback for an OBJ of n meshes; `caught` as in the
\* OBJ viewer: whether the loader routes an error of this callback to the
\* error callback
GemLoadSuccess(n, box, caught) ==
    LET mats == HueOf(PushGems(gemMaterials, n), scrollProgress)
        defaultMats == HueOf(PushGems(mats, DefaultGems), scrollProgress)
        txt == IndicatorText(text, scrollProgress)
        sty == IndicatorStyle(style, scrollProgress)
    IN
    /\ viewer /\ load = "pending"
    /\ load' = "success"
    /\ IF "loading-text" \notin present
         THEN \* line 255 raises; the error callback raises again at line 270
              /\ raised' = TRUE
              /\ model' = "object"
              /\ scene' = scene \cup {"object"}
              /\ gemMaterials' = mats
              /\ text' = txt
              /\ style' = sty
              /\ console' = IF caught THEN Append(console, NotFoundLog) ELSE console
              /\ UNCHANGED timers
         ELSE IF "progress-bar-fill" \notin present
           THEN \* line 256 raises
                IF caught
                  THEN /\ console' = Append(console, NotFoundLog)
                       /\ text' = SetText(txt, "loading-text", <<"Loading default geometry...">>)
                       /\ style' = sty
                       /\ model' = "group"
                       /\ scene' = scene \cup {"object", "group"}
                       /\ gemMaterials' = defaultMats
                       /\ timers' = timers \cup {ErrorDelay}
                       /\ UNCHANGED raised
                  ELSE /\ raised' = TRUE
                       /\ text' = SetText(txt, "loading-text", <<"Model Loaded!">>)
                       /\ style' = sty
                       /\ model' = "object"
                       /\ scene' = scene \cup {"object"}
                       /\ gemMaterials' = mats
                       /\ UNCHANGED <<timers, console>>
           ELSE /\ text' = SetText(txt, "loading-text", <<"Model Loaded!">>)
                /\ style' = SetStyle(sty, "progress-bar-fill", <<"width", 100, "%">>)
                /\ model' = "object"
                /\ scene' = scene \cup {"object"}
                /\ gemMaterials' = mats
                /\ timers' = timers \cup {SuccessDelay}
                /\ UNCHANGED <<raised, console>>
    /\ UNCHANGED <<present, classes, defaultPrevented>>
    /\ UNCHANGED <<three, viewer, animating, domReady, scrollProgress, filmVars>>
    /\ UNCHANGED mainPage
    /\ FitObject(box)
    /\ UNCHANGED fnVars
    /\ UNCHANGED scenePage

\* loadModel's error callback, loadDefaultGeometry included
GemLoadError ==
    /\ viewer /\ load = "pending"
    /\ load' = "error"
    /\ console' = Append(console, NotFoundLog)
    /\ IF "loading-text" \notin present
         THEN /\ raised' = TRUE
              /\ UNCHANGED <<text, style, model, scene, gemMaterials, timers>>
         ELSE /\ model' = "group"
              /\ scene' = scene \cup {"group"}
              /\ gemMaterials' = HueOf(PushGems(gemMaterials, DefaultGems), scrollProgress)
              /\ text' = IndicatorText(
                            SetText(text, "loading-text", <<"Loading default geometry...">>),
                            scrollProgress)
              /\ style' = IndicatorStyle(style, scrollProgress)
              /\ timers' = timers \cup {ErrorDelay}
              /\ UNCHANGED raised
    /\ UNCHANGED <<present, classes, defaultPrevented>>
    /\ UNCHANGED <<three, viewer, animating, domReady, scrollProgress, filmVars>>
    /\ UNCHANGED mainPage
    /\ UNCHANGED objVars
    /\ UNCHANGED fnVars
    /\ UNCHANGED scenePage

\* the gemstone page after the ModelViewer constructor has run
InitGem ==
    /\ present \in SUBSET GemElements
    /\ NoDom /\ NoLoop /\ NoFilm /\ NoNav /\ NoForm /\ NoImages
    /\ three = TRUE
    /\ viewer = TRUE
    /\ model = "null"
    /\ scene = {}
    /\ load = "pending"
    /\ animating = TRUE
    /\ domReady = TRUE
    /\ scrollProgress = 0
    /\ gemMaterials = <<>>
    /\ NoObject
    /\ NoCall
    /\ NoScene

NextGem ==
    \/ \E shiftKey \in BOOLEAN, deltaY \in {-100, 0, 100} : GemWheel(shiftKey, deltaY)
    \/ \E n \in 0..MaxMeshes, box \in Boxes, caught \in BOOLEAN :
            GemLoadSuccess(n, box, caught)
    \/ \E pct \in Percents : LoadProgress(pct)
    \/ GemLoadError
    \/ \E t \in timers : HideLoadingScreen(t)

SpecGem == InitGem /\ [][NextGem]_vars

----------------------------------------------------------------------------
\* C1: in the gemstone viewer scrollProgress stays within [0, 1] after any
\* sequence of wheel events (Shift held or not, deltaY of any sign), and a
\* Shift+wheel step of +0.02 at the upper bound or of -0.02 at the lower bound
\* leaves it at the bound.
ScrollProgressInRange ==
    /\ [](scrollProgress \in 0..100)
    /\ [][/\ (GemWheel(TRUE, 100) /\ scrollProgress = 100) => scrollProgress' = 100
          /\ (GemWheel(TRUE, -100) /\ scrollProgress = 0) => scrollProgress' = 0]_vars

\* Shift+wheel has driven the progress up to the upper bound
ScrollProgressAtUpperBound == scrollProgress = 100 /\ defaultPrevented

----------------------------------------------------------------------------
\* Thin-film viewer (part_001)

FilmElements == GemElements

DefaultThickness == 380
MinThickness == 200
MaxThickness == 1000
ThicknessStep == 20

\* Math.max(200, Math.min(1000, x))
ClampThicknessUnbounded(x) == Max(MinThickness, x)
ClampThickness(x) == Max(MinThickness, Min(MaxThickness, x))

\* updateFilmThickness(thickness): fresnelMap.filmThickness of every material
ThicknessOf(mats, thickness) == [i \in DOMAIN mats |-> thickness]

\* updateThicknessIndicator(thickness): `${Math.round(thickness)}nm`
ThicknessText(t, thickness) ==
    IF "gem-state-indicator" \in present
      THEN SetText(t, "gem-state-indicator", <<thickness, "nm">>)
      ELSE t

\* the wheel listener on #canvas-container
FilmWheel(shiftKey, deltaY) ==
    /\ viewer
    /\ "canvas-container" \in present
    /\ IF shiftKey
         THEN LET delta == IF deltaY > 0 THEN ThicknessStep ELSE -ThicknessStep
                  th == ClampThickness(filmThickness + delta)
              IN /\ defaultPrevented' = TRUE
                 /\ filmThickness' = th
                 /\ iridescenceMaterials' = ThicknessOf(iridescenceMaterials, th)
                 /\ text' = ThicknessText(text, th)
         ELSE /\ defaultPrevented' = FALSE
              /\ UNCHANGED <<filmThickness, iridescenceMaterials, text>>
    /\ UNCHANGED <<present, classes, style, raised, console, timers>>
    /\ UNCHANGED <<viewerVars, gemVars>>
    /\ UNCHANGED mainPage
    /\ UNCHANGED objVars
    /\ UNCHANGED fnVars
    /\ UNCHANGED scenePage

\* createIridescenceMaterial(this.filmThickness), called n times
PushFilms(mats, n) == mats \o [i \in 1..n |-> filmThickness]

\* materials loadDefaultGeometry creates: the icosahedron and the four small ones
DefaultFilms == 5

\* loadModel's success callback for an OBJ of n meshes; `caught` as in the
\* OBJ viewer: whether the loader routes an error of this callback to the
\* error callback
FilmLoadSuccess(n, box, caught) ==
    LET mats == PushFilms(iridescenceMaterials, n)
        defaultMats == PushFilms(mats, DefaultFilms)
        txt == ThicknessText(text, filmThickness)
    IN
    /\ viewer /\ load = "pending"
    /\ load' = "success"
    /\ IF "loading-text" \notin present
         THEN \* line 245 raises; the error callback raises again at line 260
              /\ raised' = TRUE
              /\ model' = "object"
              /\ scene' = scene \cup {"object"}
              /\ iridescenceMaterials' = mats
              /\ text' = txt
              /\ console' = IF caught THEN Append(console, NotFoundLog) ELSE console
              /\ UNCHANGED <<style, timers>>
         ELSE IF "progress-bar-fill" \notin present
           THEN \* line 246 raises
                IF caught
                  THEN /\ console' = Append(console, NotFoundLog)
                       /\ text' = SetText(txt, "loading-text", <<"Loading default geometry...">>)
                       /\ model' = "group"
                       /\ scene' = scene \cup {"object", "group"}
                       /\ iridescenceMaterials' = defaultMats
                       /\ timers' = timers \cup {ErrorDelay}
                       /\ UNCHANGED <<style, raised>>
                  ELSE /\ raised' = TRUE
                       /\ text' = SetText(txt, "loading-text", <<"Model Loaded!">>)
                       /\ model' = "object"
                       /\ scene' = scene \cup {"object"}
                       /\ iridescenceMaterials' = mats
                       /\ UNCHANGED <<style, timers, console>>
           ELSE /\ text' = SetText(txt, "loading-text", <<"Model Loaded!">>)
                /\ style' = SetStyle(style, "progress-bar-fill", <<"width", 100, "%">>)
                /\ model' = "object"
                /\ scene' = scene \cup {"object"}
                /\ iridescenceMaterials' = mats
                /\ timers' = timers \cup {SuccessDelay}
                /\ UNCHANGED <<raised, console>>
    /\ UNCHANGED <<present, classes, defaultPrevented>>
    /\ UNCHANGED <<three, viewer, animating, domReady, filmThickness, gemVars>>
    /\ UNCHANGED mainPage
    /\ FitObject(box)
    /\ UNCHANGED fnVars
    /\ UNCHANGED scenePage

\* loadModel's error callback, loadDefaultGeometry included
FilmLoadError ==
    /\ viewer /\ load = "pending"
    /\ load' = "error"
    /\ console' = Append(console, NotFoundLog)
    /\ IF "loading-text" \notin present
         THEN /\ raised' = TRUE
              /\ UNCHANGED <<text, model, scene, iridescenceMaterials, timers>>
         ELSE /\ model' = "group"
              /\ scene' = scene \cup {"group"}
              /\ iridescenceMaterials' = PushFilms(iridescenceMaterials, DefaultFilms)
              /\ text' = ThicknessText(
                            SetText(text, "loading-text", <<"Loading default geometry...">>),
                            filmThickness)
              /\ timers' = timers \cup {ErrorDelay}
              /\ UNCHANGED raised
    /\ UNCHANGED <<present, classes, style, defaultPrevented>>
    /\ UNCHANGED <<three, viewer, animating, domReady, filmThickness, gemVars>>
    /\ UNCHANGED mainPage
    /\ UNCHANGED objVars
    /\ UNCHANGED fnVars
    /\ UNCHANGED scenePage

\* the thin-film page after the ModelViewer constructor has run
InitFilm ==
    /\ present \in SUBSET FilmElements
    /\ NoDom /\ NoLoop /\ NoGem /\ NoNav /\ NoForm /\ NoImages
    /\ three = TRUE
    /\ viewer = TRUE
    /\ model = "null"
    /\ scene = {}
    /\ load = "pending"
    /\ animating = TRUE
    /\ domReady = TRUE
    /\ filmThickness = DefaultThickness
    /\ iridescenceMaterials = <<>>
    /\ NoObject
    /\ NoCall
    /\ NoScene

NextFilm ==
    \/ \E shiftKey \in BOOLEAN, deltaY \in {-100, 0, 100} : FilmWheel(shiftKey, deltaY)
    \/ \E n \in 0..MaxMeshes, box \in Boxes, caught \in BOOLEAN :
            FilmLoadSuccess(n, box, caught)
    \/ \E pct \in Percents : LoadProgress(pct)
    \/ FilmLoadError
    \/ \E t \in timers : HideLoadingScreen(t)

SpecFilm == InitFilm /\ [][NextFilm]_vars

----------------------------------------------------------------------------
\* The gemstone and the thin-film viewer side by side: a page is one or the
\* other. The thin-film viewer's constructor sets filmThickness, which stays
\* at 0 on the gemstone page.

InitWheel == InitGem \/ InitFilm

NextWheel ==
    \/ NoFilm /\ NextGem
    \/ ~NoFilm /\ NextFilm

SpecWheel == InitWheel /\ [][NextWheel]_vars

----------------------------------------------------------------------------
\* The info panel of the gemstone and of the thin-film viewer

\* the info panel and its collapse button
PanelElements == {"collapse-info-btn", "info-panel"}

\* the minus sign (U+2212) the gemstone viewer writes, and what the thin-film
\* viewer writes: its file holds the UTF-8 bytes of the minus sign read as
\* three characters
GemMinus  == <<"U+2212">>
FilmMinus == <<"U+00E2", "U+02C6", "U+2019">>

\* the click listener of #collapse-info-btn, registered only when the button
\* and .info-panel both exist; `minus` is the text of the expanded state
CollapseClickStaleText(minus) ==
    /\ viewer
    /\ PanelElements \subseteq present
    /\ classes' = ToggleClass(classes, "info-panel", "collapsed")
    /\ text' = SetText(text, "collapse-info-btn",
                       IF "collapsed" \in classes["info-panel"] THEN <<"+">> ELSE minus)
    /\ defaultPrevented' = FALSE
    /\ UNCHANGED <<present, style, raised, console, timers>>
    /\ UNCHANGED <<viewerPage, mainPage, fnVars>>
    /\ UNCHANGED scenePage

CollapseClick(minus) ==
    /\ viewer
    /\ PanelElements \subseteq present
    /\ LET c == ToggleClass(classes, "info-panel", "collapsed")
       IN /\ classes' = c
          /\ text' = SetText(text, "collapse-info-btn",
                             IF "collapsed" \in c["info-panel"] THEN <<"+">> ELSE minus)
    /\ defaultPrevented' = FALSE
    /\ UNCHANGED <<present, style, raised, console, timers>>
    /\ UNCHANGED <<viewerPage, mainPage, fnVars>>
    /\ UNCHANGED scenePage

\* pages that have the elements the viewers write to, with or without the
\* info panel and its button
PanelPages == { GemElements \cup S : S \in SUBSET PanelElements }

\* either viewer, constructed on such a page
InitPanel ==
    /\ present \in PanelPages
    /\ NoDom /\ NoLoop /\ NoNav /\ NoForm /\ NoImages /\ NoObject /\ NoCall
    /\ three = TRUE
    /\ viewer = TRUE
    /\ model = "null"
    /\ scene = {}
    /\ load = "pending"
    /\ animating = TRUE
    /\ domReady = TRUE
    /\ scrollProgress = 0
    /\ gemMaterials = <<>>
    /\ iridescenceMaterials = <<>>
    /\ filmThickness \in {0, DefaultThickness}
    /\ NoScene

NextPanel ==
    \/ NoFilm /\ (NextGem \/ CollapseClick(GemMinus))
    \/ ~NoFilm /\ (NextFilm \/ CollapseClick(FilmMinus))

SpecPanel == InitPanel /\ [][NextPanel]_vars


\* C2: in the thin-film viewer filmThickness, starting from 380, stays within
\* 200..1000 nanometres after any sequence of wheel events.
FilmThicknessInRange == filmThickness \in MinThickness..MaxThickness

\* Shift+wheel has driven the thickness from 380 up to the upper bound
FilmThicknessAtUpperBound == filmThickness = MaxThickness /\ defaultPrevented

----------------------------------------------------------------------------
\* OBJ viewer (js/viewer.js)

ViewerElements == LoadingElements

\* the DOMContentLoaded listener: construct the viewer when THREE is defined,
\* else log the error and show it in #loading-text when that element exists.
\* The constructor runs init, setupLights, loadModel (which issues the load
\* request), setupEventListeners and animate.
ViewerDOMContentLoadedUnguarded ==
    /\ ~domReady
    /\ domReady' = TRUE
    /\ IF three
         THEN /\ viewer' = TRUE
              /\ load' = "pending"
              /\ animating' = TRUE
              /\ UNCHANGED <<console, text, style, raised>>
         ELSE /\ console' = Append(console, <<"error", "Three.js library not loaded!">>)
              /\ IF "loading-text" \in present
                   THEN /\ text' = SetText(text, "loading-text",
                                           <<"Error: Three.js library not loaded">>)
                        /\ style' = SetStyle(style, "loading-text", <<"color", "#ff006e">>)
                        /\ UNCHANGED raised
                   ELSE /\ raised' = TRUE
                        /\ UNCHANGED <<text, style>>
              /\ UNCHANGED <<viewer, load, animating>>
    /\ UNCHANGED <<present, classes, defaultPrevented, timers>>
    /\ UNCHANGED <<three, model, scene, gemVars, filmVars>>
    /\ UNCHANGED mainPage
    /\ UNCHANGED objVars
    /\ UNCHANGED fnVars
    /\ UNCHANGED scenePage

ViewerDOMContentLoaded ==
    /\ ~domReady
    /\ domReady' = TRUE
    /\ IF three
         THEN /\ viewer' = TRUE
              /\ load' = "pending"
              /\ animating' = TRUE
              /\ UNCHANGED <<console, text, style>>
         ELSE /\ console' = Append(console, <<"error", "Three.js library not loaded!">>)
              /\ IF "loading-text" \in present
                   THEN /\ text' = SetText(text, "loading-text",
                                           <<"Error: Three.js library not loaded">>)
                        /\ style' = SetStyle(style, "loading-text", <<"color", "#ff006e">>)
                   ELSE UNCHANGED <<text, style>>
              /\ UNCHANGED <<viewer, load, animating>>
    /\ UNCHANGED <<present, classes, raised, defaultPrevented, timers>>
    /\ UNCHANGED <<three, model, scene, gemVars, filmVars>>
    /\ UNCHANGED mainPage
    /\ UNCHANGED objVars
    /\ UNCHANGED fnVars
    /\ UNCHANGED scenePage

\* loadModel's success callback. The OBJLoader of lib/ is not part of the
\* sources: when the callback raises, the loader either lets the error escape
\* or catches it and calls the error callback with it (`caught`).
ViewerLoadSuccess(box, caught) ==
    /\ viewer /\ load = "pending"
    /\ load' = "success"
    /\ IF "loading-text" \notin present
         THEN \* line 150 raises; the error callback raises again at line 165
              /\ raised' = TRUE
              /\ model' = "object"
              /\ scene' = scene \cup {"object"}
              /\ console' = IF caught THEN Append(console, NotFoundLog) ELSE console
              /\ UNCHANGED <<text, style, timers>>
         ELSE IF "progress-bar-fill" \notin present
           THEN \* line 151 raises
                IF caught
                  THEN /\ console' = Append(console, NotFoundLog)
                       /\ text' = SetText(text, "loading-text", <<"Loading default geometry...">>)
                       /\ model' = "group"
                       /\ scene' = scene \cup {"object", "group"}
                       /\ timers' = timers \cup {ErrorDelay}
                       /\ UNCHANGED <<style, raised>>
                  ELSE /\ raised' = TRUE
                       /\ text' = SetText(text, "loading-text", <<"Model Loaded!">>)
                       /\ model' = "object"
                       /\ scene' = scene \cup {"object"}
                       /\ UNCHANGED <<style, timers, console>>
           ELSE /\ text' = SetText(text, "loading-text", <<"Model Loaded!">>)
                /\ style' = SetStyle(style, "progress-bar-fill", <<"width", 100, "%">>)
                /\ model' = "object"
                /\ scene' = scene \cup {"object"}
                /\ timers' = timers \cup {SuccessDelay}
                /\ UNCHANGED <<raised, console>>
    /\ UNCHANGED <<present, classes, defaultPrevented>>
    /\ UNCHANGED <<three, viewer, animating, domReady, gemVars, filmVars>>
    /\ UNCHANGED mainPage
    /\ FitObject(box)
    /\ UNCHANGED fnVars
    /\ UNCHANGED scenePage

\* loadModel's error callback, loadDefaultGeometry included
ViewerLoadError ==
    /\ viewer /\ load = "pending"
    /\ load' = "error"
    /\ console' = Append(console, NotFoundLog)
    /\ IF "loading-text" \notin present
         THEN /\ raised' = TRUE
              /\ UNCHANGED <<text, model, scene, timers>>
         ELSE /\ text' = SetText(text, "loading-text", <<"Loading default geometry...">>)
              /\ model' = "group"
              /\ scene' = scene \cup {"group"}
              /\ timers' = timers \cup {ErrorDelay}
              /\ UNCHANGED raised
    /\ UNCHANGED <<present, classes, style, defaultPrevented>>
    /\ UNCHANGED <<three, viewer, animating, domReady, gemVars, filmVars>>
    /\ UNCHANGED mainPage
    /\ UNCHANGED objVars
    /\ UNCHANGED fnVars
    /\ UNCHANGED scenePage

\* the OBJ viewer's page when its scripts have been read
InitViewer ==
    /\ present \in SUBSET ViewerElements
    /\ NoDom /\ NoLoop /\ NoGem /\ NoFilm /\ NoNav /\ NoForm /\ NoImages
    /\ three \in BOOLEAN
    /\ viewer = FALSE
    /\ model = "null"
    /\ scene = {}
    /\ load = "none"
    /\ animating = FALSE
    /\ domReady = FALSE
    /\ NoObject
    /\ NoCall
    /\ NoScene

NextViewer ==
    \/ ViewerDOMContentLoaded
    \/ \E box \in Boxes, caught \in BOOLEAN : ViewerLoadSuccess(box, caught)
    \/ \E pct \in Percents : LoadProgress(pct)
    \/ ViewerLoadError
    \/ \E t \in timers : HideLoadingScreen(t)

SpecViewer == InitViewer /\ [][NextViewer]_vars

\* C3: when the OBJ load fails (the error callback has run), this.model is the
\* procedurally generated group of loadDefaultGeometry and the scene contains it.
PlaceholderAfterLoadError ==
    load = "error" => (model = "group" /\ "group" \in scene)

\* C4: whichever outcome the load has, the loading screen gets class 'hidden'
\* when the timer the outcome scheduled has fired: once the success or error
\* callback has run and no timer is pending, the loading screen is hidden.
LoadingScreenHiddenAfterLoad ==
    ("loading-screen" \in present /\ load \in {"success", "error"} /\ timers = {})
        => "hidden" \in classes["loading-screen"]

\* C5: with THREE undefined at DOMContentLoaded no ModelViewer is constructed
\* (no scene content, no load request, no animation loop), the error is
\* logged, the message is shown in #loading-text exactly when that element
\* exists, and no exception is raised.
NoViewerWithoutThree ==
    (domReady /\ ~three) =>
        /\ ~viewer /\ model = "null" /\ scene = {} /\ load = "none" /\ ~animating
        /\ console = <<<<"error", "Three.js library not loaded!">>>>
        /\ ~raised
        /\ \A e \in present :
              /\ text[e] = IF e = "loading-text"
                             THEN <<"Error: Three.js library not loaded">>
                             ELSE <<>>
              /\ style[e] = IF e = "loading-text"
                              THEN <<"color", "#ff006e">>
                              ELSE <<>>

\* THREE is undefined, the page has no #loading-text, and the listener has run
ThreeMissingHandled == domReady /\ ~three /\ "loading-text" \notin present

----------------------------------------------------------------------------
\* main.js: initNavigation (part_000)

NavElements == {"burger", "nav-links", "main-nav"}

\* the id attribute of every .section, in document order
SectionIds == << <<"home">>, <<"about">> >>
NSections == Len(SectionIds)

\* values the page may give an href, an offsetTop and the scroll offset
Hrefs == { <<"#">>, <<"#", "home">>, <<"#", "about">> }
Tops == {0, 300, 600}
ScrollOffsets == {0, 150, 450}

\* the burger's click listener (registered only when the burger exists)
BurgerClickBurgerOnly ==
    /\ "burger" \in present
    /\ IF "nav-links" \notin present
         THEN /\ raised' = TRUE
              /\ UNCHANGED classes
         ELSE /\ classes' = ToggleClass(classes, "burger", "toggle")
              /\ UNCHANGED raised
    /\ defaultPrevented' = FALSE
    /\ UNCHANGED <<present, text, style, console, timers>>
    /\ UNCHANGED <<navVars, formVars, imgVars, viewerPage>>
    /\ UNCHANGED fnVars
    /\ UNCHANGED scenePage

BurgerClick ==
    /\ "burger" \in present
    /\ IF "nav-links" \notin present
         THEN /\ raised' = TRUE
              /\ UNCHANGED classes
         ELSE /\ classes' = ToggleClass(ToggleClass(classes, "nav-links", "active"),
                                        "burger", "toggle")
              /\ UNCHANGED raised
    /\ defaultPrevented' = FALSE
    /\ UNCHANGED <<present, text, style, console, timers>>
    /\ UNCHANGED <<navVars, formVars, imgVars, viewerPage>>
    /\ UNCHANGED fnVars
    /\ UNCHANGED scenePage

NavLinkClickNavOnly(l) ==
    /\ l \in DOMAIN linkHref
    /\ IF "nav-links" \notin present
         THEN /\ raised' = TRUE
              /\ UNCHANGED classes
         ELSE IF "burger" \notin present
           THEN /\ raised' = TRUE
                /\ classes' = RemoveClass(classes, "nav-links", "active")
           ELSE /\ classes' = RemoveClass(classes, "nav-links", "active")
                /\ UNCHANGED raised
    /\ defaultPrevented' = TRUE
    /\ UNCHANGED <<present, text, style, console, timers>>
    /\ UNCHANGED <<navVars, formVars, imgVars, viewerPage>>
    /\ UNCHANGED fnVars
    /\ UNCHANGED scenePage

\* a click on nav link l: initNavigation's listener closes the menu, then
\* initSmoothScroll's listener on a[href^="#"] prevents the default jump
NavLinkClick(l) ==
    /\ l \in DOMAIN linkHref
    /\ IF "nav-links" \notin present
         THEN /\ raised' = TRUE
              /\ UNCHANGED classes
         ELSE IF "burger" \notin present
           THEN /\ raised' = TRUE
                /\ classes' = RemoveClass(classes, "nav-links", "active")
           ELSE /\ classes' = RemoveClass(RemoveClass(classes, "nav-links", "active"),
                                          "burger", "toggle")
                /\ UNCHANGED raised
    /\ defaultPrevented' = TRUE
    /\ UNCHANGED <<present, text, style, console, timers>>
    /\ UNCHANGED <<navVars, formVars, imgVars, viewerPage>>
    /\ UNCHANGED fnVars
    /\ UNCHANGED scenePage

\* sections.forEach of the scroll listener, from section i on: `current` is
\* overwritten by every section whose top - 200 is at or above the offset
RECURSIVE CurrentFrom(_, _, _)
CurrentFrom(i, current, y) ==
    IF i > NSections THEN current
    ELSE CurrentFrom(i + 1,
                     IF y >= sectionTop[i] - 200 THEN SectionIds[i] ELSE current,
                     y)

\* navLinks.forEach of the scroll listener: remove 'active', then add it back
\* when the href is `#${current}`
ActiveLinks(current) == {l \in DOMAIN linkHref : linkHref[l] = <<"#">> \o current}

\* the window's scroll listener, at the new scroll offset y
Scroll(y) ==
    /\ pageYOffset' = y
    /\ linkActive' = ActiveLinks(CurrentFrom(1, <<>>, y))
    /\ IF "main-nav" \notin present
         THEN /\ raised' = TRUE
              /\ UNCHANGED classes
         ELSE /\ classes' = IF y > 100
                              THEN AddClass(classes, "main-nav", "scrolled")
                              ELSE RemoveClass(classes, "main-nav", "scrolled")
              /\ UNCHANGED raised
    /\ defaultPrevented' = FALSE
    /\ UNCHANGED <<present, text, style, console, timers>>
    /\ UNCHANGED <<linkHref, sectionTop, formVars, imgVars, viewerPage>>
    /\ UNCHANGED fnVars
    /\ UNCHANGED scenePage

\* the portfolio page when initNavigation has run: the menu is closed and no
\* link is marked active
InitNav ==
    /\ present \in SUBSET NavElements
    /\ NoDom /\ NoLoop /\ NoViewer /\ NoGem /\ NoFilm /\ NoForm /\ NoImages
    /\ linkHref \in [1..NLinks -> Hrefs]
    /\ sectionTop \in [1..NSections -> Tops]
    /\ linkActive = {}
    /\ pageYOffset = 0
    /\ NoObject
    /\ NoCall
    /\ NoScene

NextNav ==
    \/ BurgerClick
    \/ \E l \in DOMAIN linkHref : NavLinkClick(l)
    \/ \E y \in ScrollOffsets : Scroll(y)

SpecNav == InitNav /\ [][NextNav]_vars

\* C6: missing DOM elements are guarded by existence checks: whichever of the
\* bound elements the page lacks, no handler raises an error in any sequence
\* of clicks and scrolls.
NoHandlerRaises == ~raised

\* the menu is open: the nav list has class 'active'
MenuOpen == "active" \in classes["nav-links"]

\* C9: (on a page with the menu) each click on the burger flips the mobile
\* menu between closed and open, and a click on any nav link leaves the menu
\* closed whatever its state before.
BurgerFlipsLinkCloses ==
    [][/\ (BurgerClick /\ "nav-links" \in present) => (MenuOpen' = ~MenuOpen)
       /\ \A l \in DOMAIN linkHref :
             (NavLinkClick(l) /\ "nav-links" \in present) => ~MenuOpen']_vars

\* the menu has been opened by the burger
MenuOpened == "nav-links" \in present /\ MenuOpen

\* the sections whose offsetTop - 200 is at or above the scroll offset
Reached == {i \in 1..NSections : sectionTop[i] - 200 <= pageYOffset}

\* the href that names section i
HrefOf(i) == <<"#">> \o SectionIds[i]

\* C10: after every scroll event a nav link carries class 'active' if and only
\* if its href is '#' followed by the id of the last section (in document
\* order) whose offsetTop - 200 is <= the scroll offset; when no section
\* satisfies that, no nav link is active.
ActiveLinkIsLastReachedSection ==
    \A l \in DOMAIN linkHref :
        l \in linkActive <=>
            \E i \in Reached : /\ \A j \in Reached : j <= i
                               /\ linkHref[l] = HrefOf(i)

ActiveAfterScroll ==
    [][(\E y \in ScrollOffsets : Scroll(y)) => ActiveLinkIsLastReachedSection']_vars

----------------------------------------------------------------------------
\* main.js: initContactForm (part_000)

FormElements == {"contact-form"}

FieldIds == {"name", "email", "message"}

\* what a visitor may type into a field
Typed == {"", "ada"}

\* contactForm.reset(): every control goes back to its default value, which
\* is empty for a control without a value attribute
ResetForm == [f \in FieldIds |-> ""]

\* the visitor edits a field of the form
TypeField(f, v) ==
    /\ "contact-form" \in present
    /\ fields' = [fields EXCEPT ![f] = v]
    /\ UNCHANGED <<alerts, navigations>>
    /\ UNCHANGED <<domVars, loopVars, navVars, imgVars, viewerPage>>
    /\ UNCHANGED fnVars
    /\ UNCHANGED scenePage

\* the form's submit listener (registered only when the form exists); the
\* browser performs the default submission unless preventDefault was called
FormSubmitNoReset ==
    /\ "contact-form" \in present
    /\ alerts < MaxSubmits
    /\ defaultPrevented' = TRUE
    /\ console' = Append(console, <<"log", "Form submitted:", fields>>)
    /\ alerts' = alerts + 1
    /\ fields' = fields
    /\ navigations' = IF defaultPrevented' THEN navigations ELSE navigations + 1
    /\ UNCHANGED <<domVars, raised, timers, navVars, imgVars, viewerPage>>
    /\ UNCHANGED fnVars
    /\ UNCHANGED scenePage

FormSubmit ==
    /\ "contact-form" \in present
    /\ alerts < MaxSubmits
    /\ defaultPrevented' = TRUE
    /\ console' = Append(console, <<"log", "Form submitted:", fields>>)
    /\ alerts' = alerts + 1
    /\ fields' = ResetForm
    /\ navigations' = IF defaultPrevented' THEN navigations ELSE navigations + 1
    /\ UNCHANGED <<domVars, raised, timers, navVars, imgVars, viewerPage>>
    /\ UNCHANGED fnVars
    /\ UNCHANGED scenePage

\* the portfolio page when initContactForm has run
InitForm ==
    /\ present \in SUBSET FormElements
    /\ NoDom /\ NoLoop /\ NoViewer /\ NoGem /\ NoFilm /\ NoNav /\ NoImages
    /\ fields = [f \in FieldIds |-> ""]
    /\ alerts = 0
    /\ navigations = 0
    /\ NoObject
    /\ NoCall
    /\ NoScene

NextForm ==
    \/ \E f \in FieldIds, v \in Typed : TypeField(f, v)
    \/ FormSubmit

SpecForm == InitForm /\ [][NextForm]_vars

----------------------------------------------------------------------------
\* ProgressiveImageLoader (part_006)

Imgs == 1..NImages

\* the value of an image's data-src attribute, which loadImage reads as
\* fullSrc, and the low-resolution src the page gives the image
DataSrcOf(i)  == <<"full", i>>
PlaceholderOf(i) == <<"placeholder", i>>

\* loadImage(img) for every image of S: a preload (tempImg) is started
StartLoads(S) ==
    /\ loadStarts' = [i \in Imgs |-> IF i \in S THEN loadStarts[i] + 1 ELSE loadStarts[i]]
    /\ preloading' = [i \in Imgs |-> IF i \in S THEN preloading[i] + 1 ELSE preloading[i]]

\* setupImages, run once when the DOM is ready: collect img[data-src]; return
\* when there is none; observe them all, or load them all without
\* IntersectionObserver
SetupImages ==
    /\ ~domReady
    /\ domReady' = TRUE
    /\ images' = dataSrc
    /\ IF dataSrc = {}
         THEN UNCHANGED <<observed, loadStarts, preloading>>
         ELSE IF hasIO
           THEN /\ observed' = dataSrc
                /\ UNCHANGED <<loadStarts, preloading>>
           ELSE /\ StartLoads(dataSrc)
                /\ UNCHANGED observed
    /\ UNCHANGED <<hasIO, dataSrc, imgLoaded, imgFailed, imgSrc>>
    /\ UNCHANGED <<domVars, loopVars, navVars, formVars, gemVars, filmVars, objVars>>
    /\ UNCHANGED <<three, viewer, model, scene, load, animating>>
    /\ UNCHANGED fnVars
    /\ UNCHANGED scenePage

\* the IntersectionObserver callback with one entry for every image of
\* `entries`, those of `intersecting` with isIntersecting: load and unobserve
IntersectKeepObserving(entries, intersecting) ==
    /\ entries # {} /\ entries \subseteq observed
    /\ intersecting \subseteq entries
    /\ StartLoads(intersecting)
    /\ observed' = observed
    /\ UNCHANGED <<hasIO, images, dataSrc, imgLoaded, imgFailed, imgSrc>>
    /\ UNCHANGED <<domVars, loopVars, navVars, formVars, viewerPage>>
    /\ UNCHANGED fnVars
    /\ UNCHANGED scenePage

Intersect(entries, intersecting) ==
    /\ entries # {} /\ entries \subseteq observed
    /\ intersecting \subseteq entries
    /\ StartLoads(intersecting)
    /\ observed' = observed \ intersecting
    /\ UNCHANGED <<hasIO, images, dataSrc, imgLoaded, imgFailed, imgSrc>>
    /\ UNCHANGED <<domVars, loopVars, navVars, formVars, viewerPage>>
    /\ UNCHANGED fnVars
    /\ UNCHANGED scenePage

PreloadDoneKeepsDataSrc(i) ==
    /\ i \in Imgs /\ preloading[i] > 0
    /\ preloading' = [preloading EXCEPT ![i] = @ - 1]
    /\ imgSrc' = [imgSrc EXCEPT ![i] = DataSrcOf(i)]
    /\ imgLoaded' = imgLoaded \cup {i}
    /\ UNCHANGED <<hasIO, images, dataSrc, observed, loadStarts, imgFailed>>
    /\ UNCHANGED <<domVars, loopVars, navVars, formVars, viewerPage>>
    /\ UNCHANGED fnVars
    /\ UNCHANGED scenePage

\* tempImg.onload: set src to the full source, add 'loaded', drop data-src
PreloadDone(i) ==
    /\ i \in Imgs /\ preloading[i] > 0
    /\ preloading' = [preloading EXCEPT ![i] = @ - 1]
    /\ imgSrc' = [imgSrc EXCEPT ![i] = DataSrcOf(i)]
    /\ imgLoaded' = imgLoaded \cup {i}
    /\ dataSrc' = dataSrc \ {i}
    /\ UNCHANGED <<hasIO, images, observed, loadStarts, imgFailed>>
    /\ UNCHANGED <<domVars, loopVars, navVars, formVars, viewerPage>>
    /\ UNCHANGED fnVars
    /\ UNCHANGED scenePage

\* tempImg.onerror: call the image's own onerror handler when it has one
PreloadError(i) ==
    /\ i \in Imgs /\ preloading[i] > 0
    /\ preloading' = [preloading EXCEPT ![i] = @ - 1]
    /\ imgFailed' = imgFailed \cup {i}
    /\ UNCHANGED <<hasIO, images, dataSrc, observed, loadStarts, imgLoaded, imgSrc>>
    /\ UNCHANGED <<domVars, loopVars, navVars, formVars, viewerPage>>
    /\ UNCHANGED fnVars
    /\ UNCHANGED scenePage

\* the page when `new ProgressiveImageLoader()` has been called
InitImages ==
    /\ present = {}
    /\ NoDom /\ NoLoop /\ NoViewer /\ NoGem /\ NoFilm /\ NoNav /\ NoForm
    /\ hasIO \in BOOLEAN
    /\ images = {}
    /\ dataSrc \in SUBSET Imgs
    /\ observed = {}
    /\ loadStarts = [i \in Imgs |-> 0]
    /\ preloading = [i \in Imgs |-> 0]
    /\ imgLoaded = {}
    /\ imgFailed = {}
    /\ imgSrc = [i \in Imgs |-> PlaceholderOf(i)]
    /\ NoObject
    /\ NoCall
    /\ NoScene

NextImages ==
    \/ SetupImages
    \/ \E entries \in SUBSET observed, intersecting \in SUBSET observed :
          Intersect(entries, intersecting)
    \/ \E i \in Imgs : PreloadDone(i)
    \/ \E i \in Imgs : PreloadError(i)

SpecImages == InitImages /\ [][NextImages]_vars

\* C8: the full-resolution load of each img[data-src] is started at most once
\* over any sequence of intersection events: an image whose load was started
\* is no longer observed, and a failed load is not started again.
LoadStartedAtMostOnce ==
    \A i \in Imgs :
        /\ loadStarts[i] <= 1
        /\ loadStarts[i] = 1 => i \notin observed

\* with an IntersectionObserver, an image's load was started and failed, and
\* another image is still observed
FailedLoadNotRetried ==
    /\ hasIO
    /\ \E i \in Imgs : loadStarts[i] = 1 /\ i \in imgFailed
    /\ observed # {}

----------------------------------------------------------------------------
\* The 3D background of the portfolio page: scene.js (part_004),
\* modelLoader.js and animations.js (part_005), read in this order.
\* Rendering, particles, lights and the loading manager's onStart and
\* onProgress log lines are left out. An object is named by the order of its
\* creation; its position and scale are whole numbers of 1/Unit, a unit fine
\* enough to keep every tweened value exact.

\* largest number of objects createGeometry and loadModel create
MaxObjects == 2
\* largest number of loadModel calls
MaxLoads == 2

\* largest value of the clock, in ticks
MaxTime == 5
\* largest number of section changes the IntersectionObserver reports
MaxSectionChanges == 2

\* length of a clock tick in ms, and the 1000 ms of a section tween in ticks
TickMs == 250
PoseTicks == 1000 \div TickMs

RECURSIVE Power(_, _)
Power(b, n) == IF n = 0 THEN 1 ELSE b * Power(b, n - 1)

\* Positions and scales are kept in units of 1/Unit. A tween multiplies a
\* difference of two such values by an eased value of denominator
\* PoseTicks^2, and a tween can start from the value another one wrote.
Unit == 10 * Power(PoseTicks * PoseTicks, MaxSectionChanges)

\* the number n/d
Fx(n, d) == (n * Unit) \div d

\* ---- the registry, a plain object used as a map

\* obj[key] = value and delete obj[key]
Put(obj, key, value) ==
    [k \in DOMAIN obj \cup {key} |-> IF k = key THEN value ELSE obj[k]]
Delete(obj, key) == [k \in DOMAIN obj \ {key} |-> obj[k]]

\* the names models are registered and looked up under
Names == {"mainTorus", "myModel", "toString"}

\* this.models = {}: the registry inherits the properties of Object.prototype,
\* of which Names holds one
InheritedNames == {"toString"}

Null == [null |-> TRUE]

\* this.models[name] || null
getModel(name) ==
    IF name \in DOMAIN models THEN models[name]
    ELSE IF name \in InheritedNames THEN [inherited |-> name]
    ELSE Null

\* entry.object of a value getModel returned: an inherited function has none
ObjectsOf(entry) == IF "object" \in DOMAIN entry THEN {entry.object} ELSE {}

\* ---- creating objects

\* the options of the shipped createGeometry call, and `{}`, which leaves the
\* position (0, 0, 0) and the scale 1 of a new THREE.Object3D
TorusOptions   == [position |-> <<0, 0, 0>>, scale |-> Fx(3, 2)]
DefaultOptions == [position |-> <<0, 0, 0>>, scale |-> Fx(1, 1)]
OptionSets == {TorusOptions, DefaultOptions}

\* the switch of createGeometry
Types == {"torus", "pyramid"}
GeometryOf(type) ==
    IF type \in {"box", "sphere", "torus", "cone"} THEN type ELSE "box"

\* a new object with the options applied, added to the scene and registered
Register(geom, name, options) ==
    LET id == Len(geometry) + 1
    IN /\ geometry' = Append(geometry, geom)
       /\ meshPosition' = Append(meshPosition, options.position)
       /\ meshScale' = Append(meshScale, options.scale)
       /\ sceneObjects' = sceneObjects \cup {id}
       /\ models' = Put(models, name, [object |-> id])

\* the timers of loadingManager.onLoad: the fade-out and the hiding
FadeTimer == <<"fade-out", 500>>
HideTimer == <<"hide", 500>>

\* loadingManager.onLoad, up to its setTimeout
ManagerOnLoad(log) ==
    /\ console' = Append(log, <<"All assets loaded">>)
    /\ timers' = timers \cup {FadeTimer}

\* ---- the scripts

\* scene.js: threeScene = new ThreeScene() when THREE is defined
SceneScript ==
    /\ scriptsRun = 0
    /\ scriptsRun' = 1
    /\ threeScene' = three
    /\ UNCHANGED <<hasGLTF, modelLoader, loader, controller, registryVars, animVars>>
    /\ UNCHANGED <<domVars, loopVars, viewerPage, mainPage, fnVars>>

\* modelLoader.js: the constructor (setupLoadingManager, initLoader) and the
\* createGeometry('torus', 'mainTorus', ...) call
ModelLoaderScript ==
    /\ scriptsRun = 1
    /\ scriptsRun' = 2
    /\ IF threeScene
         THEN /\ modelLoader' = TRUE
              /\ loader' = hasGLTF
              /\ IF hasGLTF
                   THEN UNCHANGED <<console, timers>>
                   ELSE ManagerOnLoad(Append(console, <<"GLTFLoader not available">>))
              /\ Register(GeometryOf("torus"), "mainTorus", TorusOptions)
         ELSE UNCHANGED <<modelLoader, loader, console, timers, models, sceneObjects,
                          geometry, meshPosition, meshScale>>
    /\ UNCHANGED <<hasGLTF, threeScene, controller, loads, animVars>>
    /\ UNCHANGED <<domVars, raised, defaultPrevented, viewerPage, mainPage, fnVars>>

\* ---- the calls of ModelLoader

createGeometry(type, name, options) ==
    /\ modelLoader
    /\ Len(geometry) < MaxObjects
    /\ Register(GeometryOf(type), name, options)
    /\ UNCHANGED <<setupVars, loads, animVars>>
    /\ UNCHANGED <<domVars, loopVars, viewerPage, mainPage, fnVars>>

loadModelUnchecked(name) ==
    /\ modelLoader
    /\ Len(loads) < MaxLoads
    /\ loads' = Append(loads, [name |-> name, promise |-> "pending"])
    /\ UNCHANGED console
    /\ UNCHANGED <<setupVars, models, sceneObjects, geometry, meshPosition, meshScale, animVars>>
    /\ UNCHANGED <<domVars, raised, defaultPrevented, timers, viewerPage, mainPage, fnVars>>

\* loadModel(path, name), up to the promise it returns
loadModel(name) ==
    /\ modelLoader
    /\ Len(loads) < MaxLoads
    /\ IF ~loader
         THEN /\ console' = Append(console, <<"GLTF Loader not initialized">>)
              /\ loads' = Append(loads, [name |-> name, promise |-> "rejected"])
         ELSE /\ loads' = Append(loads, [name |-> name, promise |-> "pending"])
              /\ UNCHANGED console
    /\ UNCHANGED <<setupVars, models, sceneObjects, geometry, meshPosition, meshScale, animVars>>
    /\ UNCHANGED <<domVars, raised, defaultPrevented, timers, viewerPage, mainPage, fnVars>>

\* no other load is in flight: the loading manager then calls onLoad
LastPending(i) == \A j \in DOMAIN loads : j # i => loads[j].promise # "pending"

\* the success callback of loader.load for the i-th call
LoaderLoadSuccess(i) ==
    /\ i \in DOMAIN loads
    /\ loads[i].promise = "pending"
    /\ Len(geometry) < MaxObjects
    /\ Register("gltf", loads[i].name, DefaultOptions)
    /\ loads' = [loads EXCEPT ![i].promise = "resolved"]
    /\ LET log == Append(console, <<"Model loaded successfully">>)
       IN IF LastPending(i)
            THEN ManagerOnLoad(log)
            ELSE console' = log /\ UNCHANGED timers
    /\ UNCHANGED <<setupVars, animVars>>
    /\ UNCHANGED <<domVars, raised, defaultPrevented, viewerPage, mainPage, fnVars>>

\* the error callback of loader.load for the i-th call
LoaderLoadError(i) ==
    /\ i \in DOMAIN loads
    /\ loads[i].promise = "pending"
    /\ loads' = [loads EXCEPT ![i].promise = "rejected"]
    /\ LET log == Append(console, <<"Error loading model">>)
       IN IF LastPending(i)
            THEN ManagerOnLoad(log)
            ELSE console' = log /\ UNCHANGED timers
    /\ UNCHANGED <<setupVars, models, sceneObjects, geometry, meshPosition, meshScale, animVars>>
    /\ UNCHANGED <<domVars, raised, defaultPrevented, viewerPage, mainPage, fnVars>>

removeModel(name) ==
    /\ modelLoader
    /\ IF getModel(name) # Null
         THEN /\ sceneObjects' = sceneObjects \ ObjectsOf(getModel(name))
              /\ models' = Delete(models, name)
         ELSE UNCHANGED <<models, sceneObjects>>
    /\ UNCHANGED <<setupVars, geometry, meshPosition, meshScale, loads, animVars>>
    /\ UNCHANGED <<domVars, loopVars, viewerPage, mainPage, fnVars>>

\* the first timer of loadingManager.onLoad
LoaderFadeOut ==
    /\ FadeTimer \in timers
    /\ IF "loading-screen" \in present
         THEN /\ classes' = AddClass(classes, "loading-screen", "fade-out")
              /\ timers' = (timers \ {FadeTimer}) \cup {HideTimer}
         ELSE /\ timers' = timers \ {FadeTimer}
              /\ UNCHANGED classes
    /\ UNCHANGED <<present, text, style, raised, defaultPrevented, console>>
    /\ UNCHANGED <<scenePage, viewerPage, mainPage, fnVars>>

\* the second timer: loadingScreen.style.display = 'none'
LoaderHide ==
    /\ HideTimer \in timers
    /\ timers' = timers \ {HideTimer}
    /\ style' = SetStyle(style, "loading-screen", <<"display", "none">>)
    /\ UNCHANGED <<present, text, classes, raised, defaultPrevented, console>>
    /\ UNCHANGED <<scenePage, viewerPage, mainPage, fnVars>>

\* ---- animations.js: AnimationController

\* the sections onSectionChange has a case for, and the ids of the page's
\* .section elements
Sections == {"home", "about", "projects", "contact"}
PageSections == Sections \cup {"blog"}

\* the target animateHome, animateAbout, animateProjects and animateContact
\* pass to animateModelTo; the rotation targets are left out with the
\* rotation values
SectionPose(id) ==
    CASE id = "home" ->
           [position |-> <<0, 0, 0>>, scale |-> Fx(3, 2), duration |-> 1000]
      [] id = "about" ->
           [position |-> <<Fx(2, 1), 0, Fx(-2, 1)>>, scale |-> Fx(1, 1), duration |-> 1000]
      [] id = "projects" ->
           [position |-> <<Fx(-2, 1), Fx(1, 1), Fx(-1, 1)>>, scale |-> Fx(1, 1),
            duration |-> 1000]
      [] id = "contact" ->
           [position |-> <<0, Fx(-1, 1), Fx(-3, 1)>>, scale |-> Fx(4, 5), duration |-> 1000]

\* the properties a tween writes on every call of its animate(): position,
\* rotation and scale.set(scale, scale, scale)
TweenProperties ==
    {"position.x", "position.y", "position.z", "rotation.x", "rotation.y",
     "rotation.z", "scale.x", "scale.y", "scale.z"}

\* the properties the update of a registered animation writes
AnimationProperties(type) ==
    IF type = "floating" THEN {"position.y"}
    ELSE {"rotation.x", "rotation.y", "rotation.z"}

\* createFloatingAnimation(modelName, ...) and createRotationAnimation(modelName, ...)
\* on the animations object a
createFloatingAnimation(a, modelName) ==
    IF getModel(modelName) = Null THEN a
    ELSE LET id == getModel(modelName).object
         IN Put(a, modelName,
                [type |-> "floating", model |-> id, initialY |-> meshPosition[id][2]])

createRotationAnimation(a, modelName) ==
    IF getModel(modelName) = Null THEN a
    ELSE Put(a, modelName, [type |-> "rotation", model |-> getModel(modelName).object])

\* animations.js: the constructor and the two default animations
AnimationsScript ==
    /\ scriptsRun = 2
    /\ scriptsRun' = 3
    /\ IF threeScene /\ modelLoader
         THEN /\ controller' = TRUE
              /\ currentSection' = "home"
              /\ animations' = createRotationAnimation(
                                   createFloatingAnimation(animations, "mainTorus"),
                                   "mainTorus")
         ELSE UNCHANGED <<controller, currentSection, animations>>
    /\ UNCHANGED <<hasGLTF, threeScene, modelLoader, loader, registryVars>>
    /\ UNCHANGED <<tweens, now, frameQueue, written>>
    /\ UNCHANGED <<domVars, loopVars, viewerPage, mainPage, fnVars>>

\* the duration of a tween, and Math.min(elapsed / duration, 1) as the
\* elapsed time this progress stands for, both in ticks
DurationOf(t) == t.target.duration \div TickMs
ProgressOf(t) == Min(now - t.startTime, DurationOf(t))

EasingNoHalving(e, d) ==
    IF 2 * e < d
      THEN 2 * e * e
      ELSE d * d - (-2 * e + 2 * d) * (-2 * e + 2 * d)

\* progress < 0.5 ? 2 * progress * progress : 1 - Math.pow(-2 * progress + 2, 2) / 2
\* for progress = e / d, as a numerator over d * d
Easing(e, d) ==
    IF 2 * e < d
      THEN 2 * e * e
      ELSE d * d - ((-2 * e + 2 * d) * (-2 * e + 2 * d)) \div 2

\* start + (target - start) * eased, for eased = Easing(e, d) / (d * d)
Mix(start, target, e, d) == start + ((target - start) * Easing(e, d)) \div (d * d)

\* animateModelTo(model, target) with its first, synchronous call of
\* animate(): elapsed is 0, so position and scale are written with the values
\* they have, and a frame is requested
animateModelTo(id, target) ==
    tweens' = Append(tweens, [model |-> id,
                              startPos |-> meshPosition[id],
                              startScale |-> meshScale[id],
                              startTime |-> now,
                              target |-> target,
                              running |-> TRUE])

onSectionChangeNoContact(sectionId) ==
    /\ controller
    /\ frameQueue = <<>>
    /\ Len(SelectSeq(console, LAMBDA l : l[1] = "Section changed to:")) < MaxSectionChanges
    /\ now + PoseTicks <= MaxTime
    /\ currentSection' = sectionId
    /\ console' = Append(console, <<"Section changed to:", sectionId>>)
    /\ IF sectionId \in Sections \ {"contact"} /\ getModel("mainTorus") # Null
         THEN animateModelTo(getModel("mainTorus").object, SectionPose(sectionId))
         ELSE UNCHANGED tweens
    /\ UNCHANGED <<setupVars, registryVars, animations, now, frameQueue, written>>
    /\ UNCHANGED <<domVars, raised, defaultPrevented, timers, viewerPage, mainPage, fnVars>>

\* the IntersectionObserver callback calls onSectionChange(entry.target.id)
onSectionChange(sectionId) ==
    /\ controller
    /\ frameQueue = <<>>
    /\ Len(SelectSeq(console, LAMBDA l : l[1] = "Section changed to:")) < MaxSectionChanges
    /\ now + PoseTicks <= MaxTime
    /\ currentSection' = sectionId
    /\ console' = Append(console, <<"Section changed to:", sectionId>>)
    /\ IF sectionId \in Sections /\ getModel("mainTorus") # Null
         THEN animateModelTo(getModel("mainTorus").object, SectionPose(sectionId))
         ELSE UNCHANGED tweens
    /\ UNCHANGED <<setupVars, registryVars, animations, now, frameQueue, written>>
    /\ UNCHANGED <<domVars, raised, defaultPrevented, timers, viewerPage, mainPage, fnVars>>

\* Date.now() advances
Tick ==
    /\ frameQueue = <<>>
    /\ now < MaxTime
    /\ now' = now + 1
    /\ UNCHANGED <<setupVars, registryVars, currentSection, animations, tweens,
                   frameQueue, written>>
    /\ UNCHANGED <<domVars, loopVars, viewerPage, mainPage, fnVars>>

\* the tweens that requested a frame, in the order of their requests
RECURSIVE RunningFrom(_)
RunningFrom(i) ==
    IF i > Len(tweens) THEN <<>>
    ELSE (IF tweens[i].running THEN << <<"tween", i>> >> ELSE <<>>) \o RunningFrom(i + 1)

\* an animation frame begins: the callbacks requested so far are run in the
\* order of their requests, the animation loop's first
BeginFrame ==
    /\ controller
    /\ frameQueue = <<>>
    /\ frameQueue' = << <<"loop", 0>> >> \o RunningFrom(1)
    /\ written' = {}
    /\ UNCHANGED <<setupVars, registryVars, currentSection, animations, tweens, now>>
    /\ UNCHANGED <<domVars, loopVars, viewerPage, mainPage, fnVars>>

\* the animate() of startAnimationLoop: every registered animation's update.
\* A floating update writes initialY + sin(time * speed) * amplitude, kept as
\* one of initialY - amplitude, initialY, initialY + amplitude (amplitude 0.2)
LoopCallback ==
    /\ frameQueue # <<>>
    /\ Head(frameQueue)[1] = "loop"
    /\ frameQueue' = Tail(frameQueue)
    /\ written' = written \cup
           UNION { {<<"animation", animations[n].model, p>> :
                       p \in AnimationProperties(animations[n].type)} :
                   n \in DOMAIN animations }
    /\ \E sine \in [DOMAIN animations -> {-1, 0, 1}] :
         meshPosition' =
           [id \in DOMAIN meshPosition |->
              IF \E n \in DOMAIN animations :
                    animations[n].type = "floating" /\ animations[n].model = id
                THEN LET n == CHOOSE m \in DOMAIN animations :
                                  animations[m].type = "floating" /\ animations[m].model = id
                     IN [meshPosition[id] EXCEPT
                           ![2] = animations[n].initialY + sine[n] * Fx(1, 5)]
                ELSE meshPosition[id]]
    /\ UNCHANGED <<setupVars, models, sceneObjects, geometry, meshScale, loads>>
    /\ UNCHANGED <<currentSection, animations, tweens, now>>
    /\ UNCHANGED <<domVars, loopVars, viewerPage, mainPage, fnVars>>

\* the animate() of the i-th animateModelTo call, run as a frame callback
TweenCallback(i) ==
    /\ frameQueue # <<>>
    /\ Head(frameQueue) = <<"tween", i>>
    /\ frameQueue' = Tail(frameQueue)
    /\ LET t == tweens[i]
           e == ProgressOf(t)
           d == DurationOf(t)
       IN /\ meshPosition' = [meshPosition EXCEPT ![t.model] =
                 [k \in 1..3 |-> Mix(t.startPos[k], t.target.position[k], e, d)]]
          /\ meshScale' = [meshScale EXCEPT ![t.model] =
                 IF t.target.scale # 0
                   THEN Mix(t.startScale, t.target.scale, e, d)
                   ELSE @]
          /\ written' = written \cup {<<"tween", t.model, p>> : p \in TweenProperties}
          /\ tweens' = [tweens EXCEPT ![i].running = (e < d)]
    /\ UNCHANGED <<setupVars, models, sceneObjects, geometry, loads>>
    /\ UNCHANGED <<currentSection, animations, now>>
    /\ UNCHANGED <<domVars, loopVars, viewerPage, mainPage, fnVars>>

\* the page before its scripts run
InitScene ==
    /\ present \in SUBSET {"loading-screen"}
    /\ NoDom /\ NoLoop /\ NoGem /\ NoFilm /\ NoObject /\ NoNav /\ NoForm /\ NoImages /\ NoCall
    /\ three \in BOOLEAN
    /\ viewer = FALSE
    /\ model = "null"
    /\ scene = {}
    /\ load = "none"
    /\ animating = FALSE
    /\ domReady = FALSE
    /\ scriptsRun = 0
    /\ hasGLTF \in {g \in BOOLEAN : g => three}
    /\ threeScene = FALSE
    /\ modelLoader = FALSE
    /\ loader = FALSE
    /\ controller = FALSE
    /\ models = <<>>
    /\ sceneObjects = {}
    /\ geometry = <<>>
    /\ meshPosition = <<>>
    /\ meshScale = <<>>
    /\ loads = <<>>
    /\ currentSection = ""
    /\ animations = <<>>
    /\ tweens = <<>>
    /\ now = 0
    /\ frameQueue = <<>>
    /\ written = {}

\* the registry: the scripts and the calls of ModelLoader
NextLoader ==
    \/ SceneScript
    \/ ModelLoaderScript
    \/ AnimationsScript
    \/ \E type \in Types, name \in Names, options \in OptionSets :
           createGeometry(type, name, options)
    \/ \E name \in Names : loadModel(name)
    \/ \E i \in 1..MaxLoads : LoaderLoadSuccess(i)
    \/ \E i \in 1..MaxLoads : LoaderLoadError(i)
    \/ \E name \in Names : removeModel(name)
    \/ LoaderFadeOut
    \/ LoaderHide

SpecLoader == InitScene /\ [][NextLoader]_vars

\* the animations: the scripts, the section changes and the frames
NextAnim ==
    \/ SceneScript
    \/ ModelLoaderScript
    \/ AnimationsScript
    \/ \E id \in PageSections : onSectionChange(id)
    \/ Tick
    \/ BeginFrame
    \/ LoopCallback
    \/ \E i \in 1..MaxSectionChanges : TweenCallback(i)
    \/ removeModel("mainTorus")
    \/ LoaderFadeOut
    \/ LoaderHide

SpecAnim == InitScene /\ [][NextAnim]_vars

\* the tweens on their own: the page with its loading screen, and the
\* section changes and frames without the loading manager's timers
InitTween == InitScene /\ present = {"loading-screen"}

NextTween ==
    \/ SceneScript
    \/ ModelLoaderScript
    \/ AnimationsScript
    \/ \E id \in PageSections : onSectionChange(id)
    \/ Tick
    \/ BeginFrame
    \/ LoopCallback
    \/ \E i \in 1..MaxSectionChanges : TweenCallback(i)
    \/ removeModel("mainTorus")

SpecTween == InitTween /\ [][NextTween]_vars

\* frames keep arriving and the clock advances: the clock stands still
\* while the callbacks of a frame run, so it is given strong fairness
FairTween ==
    /\ SF_vars(Tick)
    /\ WF_vars(BeginFrame)
    /\ WF_vars(LoopCallback)
    /\ \A i \in 1..MaxSectionChanges : WF_vars(TweenCallback(i))

FairSpecTween == SpecTween /\ FairTween

----------------------------------------------------------------------------
\* a call of createGeometry or a successful load registered the object it
\* added to the scene under `name`
RegisteredNew(name) ==
    /\ getModel(name)' = [object |-> Len(geometry')]
    /\ Len(geometry') = Len(geometry) + 1
    /\ Len(geometry') \in sceneObjects'

\* C12: the registry round-trips: after createGeometry(type, name) or a
\* successful loadModel(path, name), getModel(name) returns the entry whose
\* object was added to the scene; after removeModel(name), getModel(name) is
\* null and that object is no longer in the scene; getModel of a name that is
\* not registered is null, and removeModel of such a name changes neither the
\* registry nor the scene.
RegistryRoundTrips ==
    /\ [](modelLoader =>
            \A name \in Names : name \notin DOMAIN models => getModel(name) = Null)
    /\ [][\A name \in Names :
            /\ (\E type \in Types, options \in OptionSets :
                    createGeometry(type, name, options)) => RegisteredNew(name)
            /\ (\E i \in DOMAIN loads :
                    loads[i].name = name /\ LoaderLoadSuccess(i)) => RegisteredNew(name)
            /\ removeModel(name) =>
                 /\ getModel(name)' = Null
                 /\ name \in DOMAIN models => models[name].object \notin sceneObjects'
                 /\ name \notin DOMAIN models => UNCHANGED <<models, sceneObjects>>]_vars

\* C13: loadModel called when no GLTF loader was initialised returns a
\* rejected promise and leaves the model registry and the scene unchanged.
LoadWithoutLoaderRejects ==
    [][\A name \in Names :
          (loadModel(name) /\ ~loader) =>
             /\ loads'[Len(loads')] = [name |-> name, promise |-> "rejected"]
             /\ UNCHANGED <<models, sceneObjects>>]_vars

\* without GLTFLoader, loadModel was called and its promise is rejected while
\* the registry holds the torus only
RejectedWithoutLoader ==
    /\ modelLoader /\ ~loader
    /\ loads # <<>>
    /\ loads[1].promise = "rejected"
    /\ DOMAIN models = {"mainTorus"}
    /\ sceneObjects = {1}

\* the poses the four section tweens move to: x, y, z and ten times the scale
StatedPose(id) ==
    CASE id = "home"     -> <<0, 0, 0, 15>>
      [] id = "about"    -> <<2, 0, -2, 10>>
      [] id = "projects" -> <<-2, 1, -1, 10>>
      [] id = "contact"  -> <<0, -1, -3, 8>>

\* C15: onSectionChange(id) always sets currentSection to id; for id in
\* {home, about, projects, contact} with 'mainTorus' registered it starts
\* exactly one tween of mainTorus toward that section's pose; for any other
\* id, or when 'mainTorus' is not registered, it starts no tween.
SectionChangeStartsOneTween ==
    [][\A id \in PageSections :
          onSectionChange(id) =>
             /\ currentSection' = id
             /\ IF id \in Sections /\ "mainTorus" \in DOMAIN models
                  THEN /\ Len(tweens') = Len(tweens) + 1
                       /\ SubSeq(tweens', 1, Len(tweens)) = tweens
                       /\ LET t == tweens'[Len(tweens')]
                          IN /\ t.running
                             /\ t.model = models["mainTorus"].object
                             /\ t.target.position =
                                  [k \in 1..3 |-> StatedPose(id)[k] * Unit]
                             /\ 10 * t.target.scale = StatedPose(id)[4] * Unit
                  ELSE tweens' = tweens]_vars

\* the section changed to 'contact' and a tween of the torus toward the
\* contact pose is running
ContactTweenStarted ==
    /\ currentSection = "contact"
    /\ tweens # <<>>
    /\ tweens[Len(tweens)].running
    /\ tweens[Len(tweens)].target = SectionPose("contact")

\* Termination of the tweens, in exact arithmetic: when frames keep arriving
\* and the clock advances, the frame on which elapsed >= duration writes
\* start + (target - start) for position and scale and requests no further
\* frame, and such a frame comes.
TweenTerminates ==
    /\ [][\A i \in DOMAIN tweens :
            (TweenCallback(i) /\ (now - tweens[i].startTime) * TickMs >= tweens[i].target.duration)
               => /\ meshPosition'[tweens[i].model] = tweens[i].target.position
                  /\ meshScale'[tweens[i].model] = tweens[i].target.scale
                  /\ ~tweens'[i].running
                  /\ \A k \in DOMAIN frameQueue' : frameQueue'[k] # <<"tween", i>>]_vars
    /\ [][\A i \in DOMAIN tweens : ~tweens[i].running => ~tweens'[i].running]_vars
    /\ \A i \in 1..MaxSectionChanges :
          (i \in DOMAIN tweens /\ tweens[i].running)
             ~> (i \in DOMAIN tweens /\ ~tweens[i].running)

\* a tween to the about pose has ended with the torus in that pose
TweenEndedAtTarget ==
    /\ tweens # <<>>
    /\ ~tweens[1].running
    /\ tweens[1].target = SectionPose("about")
    /\ meshPosition[tweens[1].model] = <<2 * Unit, 0, -2 * Unit>>
    /\ meshScale[tweens[1].model] = Unit

\* C17: in the shipped setup, a running tween and a registered per-frame
\* animation never both write the same property (position, rotation or scale
\* component) of the same model.
NoPropertyWrittenByBoth ==
    \A w1 \in written, w2 \in written :
        (w1[1] = "tween" /\ w2[1] = "animation") => (w1[2] # w2[2] \/ w1[3] # w2[3])

\* a lies between b and c
Between(a, b, c) == (b <= a /\ a <= c) \/ (c <= a /\ a <= b)

\* progress in steps of 1/20, up to 1
GridSteps == 20

\* C18: on every frame of a tween, progress lies in [0, 1]; the eased value
\* lies in [0, 1], is 0 at progress 0 and 1 at progress 1 and is
\* non-decreasing in progress; so every animated position coordinate and the
\* scale lie between their start snapshot and their target.
NoOvershoot ==
    /\ Easing(0, GridSteps) = 0
    /\ Easing(GridSteps, GridSteps) = GridSteps * GridSteps
    /\ \A e \in 0..GridSteps :
          /\ Between(Easing(e, GridSteps), 0, GridSteps * GridSteps)
          /\ e < GridSteps => Easing(e, GridSteps) <= Easing(e + 1, GridSteps)
    /\ [][\A i \in DOMAIN tweens :
            TweenCallback(i) =>
               LET t == tweens[i]
                   e == ProgressOf(t)
                   d == DurationOf(t)
               IN /\ Between(e, 0, d)
                  /\ Between(Easing(e, d), 0, d * d)
                  /\ \A k \in 1..3 :
                        Between(meshPosition'[t.model][k], t.startPos[k], t.target.position[k])
                  /\ Between(meshScale'[t.model], t.startScale, t.target.scale)]_vars

\* a tween from the home pose to the projects pose is three quarters
\* through: the eased value is 7/8
TweenMidway ==
    /\ tweens # <<>>
    /\ tweens[1].running
    /\ tweens[1].target = SectionPose("projects")
    /\ tweens[1].startPos = <<0, 0, 0>>
    /\ meshPosition[tweens[1].model] = <<Fx(-7, 4), Fx(7, 8), Fx(-7, 8)>>

----------------------------------------------------------------------------
\* getGemColor applied on its own to every progress of the grid of hundredths

\* the call getGemColor(fnArg)
ApplyGetGemColor ==
    /\ fnResult = <<>>
    /\ fnResult' = getGemColor(fnArg)
    /\ UNCHANGED <<fnArg, domVars, loopVars, viewerPage, mainPage>>
    /\ UNCHANGED scenePage

InitGemColor ==
    /\ present = {}
    /\ NoDom /\ NoLoop /\ NoViewer /\ NoGem /\ NoFilm /\ NoObject
    /\ NoNav /\ NoForm /\ NoImages
    /\ fnArg \in 0..100
    /\ fnResult = <<>>
    /\ NoScene

NextGemColor == ApplyGetGemColor

SpecGemColor == InitGemColor /\ [][NextGemColor]_vars

\* C14: getGemColor(p) is crystal (0xffffff) at p = 0, ruby (0xff1744) at
\* p = 0.5 and sapphire (0x2979ff) at p = 1; up to 0.5 every channel is the
\* mix of crystal and ruby with weight t = 2p, from 0.5 on the mix of ruby and
\* sapphire with weight t = 2(p - 0.5), and both hold at p = 0.5.
GemColorPiecewiseLinear ==
    fnResult # <<>> =>
        /\ fnArg = 0   => fnResult = <<25500, 25500, 25500>>
        /\ fnArg = 50  => fnResult = <<25500, 2300, 6800>>
        /\ fnArg = 100 => fnResult = <<4100, 12100, 25500>>
        /\ fnArg <= 50 =>
             \A i \in 1..3 : 50 * fnResult[i] =
                 100 * (crystalColor[i] * (50 - fnArg) + rubyColor[i] * fnArg)
        /\ fnArg >= 50 =>
             \A i \in 1..3 : 50 * fnResult[i] =
                 100 * (rubyColor[i] * (100 - fnArg) + sapphireColor[i] * (fnArg - 50))

\* getGemColor was applied to p = 0.5 and returned ruby
GemColorAtMidpoint == fnArg = 50 /\ fnResult = <<25500, 2300, 6800>>

----------------------------------------------------------------------------
\* a wheel event on #canvas-container without the Shift key, on either viewer
WheelWithoutShift ==
    \E deltaY \in {-100, 0, 100} : GemWheel(FALSE, deltaY) \/ FilmWheel(FALSE, deltaY)

\* C19: a wheel event on the canvas container without the Shift key changes
\* nothing in the viewer: scrollProgress (filmThickness), every registered
\* material and the state indicator keep their values, and preventDefault is
\* not called.
WheelWithoutShiftChangesNothing ==
    [][WheelWithoutShift =>
          /\ UNCHANGED <<scrollProgress, gemMaterials, filmThickness, iridescenceMaterials>>
          /\ UNCHANGED <<text, style, classes>>
          /\ UNCHANGED <<model, scene, objVars>>
          /\ defaultPrevented' = FALSE]_vars

\* the gem was shifted away from crystal with Shift held, and the last wheel
\* event came without Shift and left hue, materials and indicator as they were
WheelIgnoredAfterShift ==
    /\ "gem-state-indicator" \in present
    /\ scrollProgress = 4
    /\ gemMaterials # <<>>
    /\ \A i \in DOMAIN gemMaterials : gemMaterials[i] = getGemColor(4)
    /\ text["gem-state-indicator"] # <<>>
    /\ ~defaultPrevented

----------------------------------------------------------------------------
\* a click on the collapse button of either viewer
AnyCollapseClick == CollapseClick(GemMinus) \/ CollapseClick(FilmMinus)

\* .info-panel carries class 'collapsed'
Collapsed == "collapsed" \in classes["info-panel"]

\* C20: when the button and the info panel both exist, after every click on
\* the collapse button the button text is '+' if and only if the info panel
\* has class 'collapsed', and each click flips the collapsed state.
ButtonTextFollowsPanel ==
    /\ []((PanelElements \subseteq present /\ text["collapse-info-btn"] # <<>>)
             => (text["collapse-info-btn"] = <<"+">> <=> Collapsed))
    /\ [][AnyCollapseClick =>
             /\ (text["collapse-info-btn"] = <<"+">>)' <=> Collapsed'
             /\ Collapsed' <=> ~Collapsed]_vars

\* the panel was collapsed by a click: the button shows '+'
PanelCollapsedByClick ==
    /\ PanelElements \subseteq present
    /\ Collapsed
    /\ text["collapse-info-btn"] = <<"+">>

----------------------------------------------------------------------------
\* the OBJ was loaded and is the viewer's model
ObjLoaded == load = "success" /\ model = "object"

\* largest dimension and centre of the world-space bounding box, over 2 * d
WorldLargest == Max(WorldMax(1) - WorldMin(1),
                    Max(WorldMax(2) - WorldMin(2), WorldMax(3) - WorldMin(3)))

ScaledToFit == WorldLargest = FitSize * 2 * objScale[2]

CentredOnOrigin == \A i \in Axes : WorldMin(i) + WorldMax(i) = 0

\* C11: after a successful OBJ load, for every bounding box whose largest
\* dimension is not 0, the centre of the model's world-space bounding box is
\* the origin and the largest dimension of that box is 3.
ModelCentredAndFitted ==
    (ObjLoaded /\ MaxDim(objBox) # 0) => (CentredOnOrigin /\ ScaledToFit)

----------------------------------------------------------------------------
\* ---- JavaScript Numbers: IEEE 754 binary64, every operation rounded to the
\* nearest value of 53 significant bits, ties to even. The values of the
\* tweens are far from the subnormal range and from overflow, so neither is
\* modelled.

SignificandBits == 53

\* A natural number is the sequence of its digits to the base 2^13, lowest
\* first and without leading zeros: the product of two digits stays within
\* the integers TLC has.
LimbBits == 13
Base == 8192

RECURSIVE Trim(_)
Trim(a) == IF a = <<>> \/ a[Len(a)] # 0 THEN a ELSE Trim(SubSeq(a, 1, Len(a) - 1))

RECURSIVE NatOf(_)
NatOf(n) == IF n = 0 THEN <<>> ELSE <<n % Base>> \o NatOf(n \div Base)

RECURSIVE AddC(_, _, _)
AddC(a, b, c) ==
    IF a = <<>> /\ b = <<>> THEN NatOf(c)
    ELSE LET x == (IF a = <<>> THEN 0 ELSE Head(a)) + (IF b = <<>> THEN 0 ELSE Head(b)) + c
         IN <<x % Base>> \o AddC(IF a = <<>> THEN a ELSE Tail(a),
                                 IF b = <<>> THEN b ELSE Tail(b), x \div Base)
AddN(a, b) == AddC(a, b, 0)

\* a - b for a >= b
RECURSIVE SubC(_, _, _)
SubC(a, b, c) ==
    IF a = <<>> THEN <<>>
    ELSE LET x == Head(a) - (IF b = <<>> THEN 0 ELSE Head(b)) - c
         IN <<(x + Base) % Base>> \o SubC(Tail(a), IF b = <<>> THEN b ELSE Tail(b),
                                          IF x < 0 THEN 1 ELSE 0)
SubN(a, b) == Trim(SubC(a, b, 0))

LessN(a, b) ==
    \/ Len(a) < Len(b)
    \/ /\ Len(a) = Len(b)
       /\ \E i \in 1..Len(a) : a[i] < b[i] /\ \A j \in (i + 1)..Len(a) : a[j] = b[j]

\* a * k + c for a digit k
RECURSIVE MulC(_, _, _)
MulC(a, k, c) ==
    IF a = <<>> THEN NatOf(c)
    ELSE LET x == Head(a) * k + c
         IN <<x % Base>> \o MulC(Tail(a), k, x \div Base)
MulSmall(a, k) == Trim(MulC(a, k, 0))

RECURSIVE MulN(_, _)
MulN(a, b) ==
    IF a = <<>> \/ b = <<>> THEN <<>>
    ELSE LET rest == MulN(a, Tail(b))
         IN AddN(MulSmall(a, Head(b)), IF rest = <<>> THEN rest ELSE <<0>> \o rest)

\* quotient and remainder of a by a digit d
RECURSIVE QuotRem(_, _)
QuotRem(a, d) ==
    IF a = <<>> THEN [q |-> <<>>, r |-> 0]
    ELSE LET hi == QuotRem(Tail(a), d)
             x == hi.r * Base + Head(a)
         IN [q |-> <<x \div d>> \o hi.q, r |-> x % d]

RECURSIVE Pow2(_)
Pow2(k) == IF k = 0 THEN 1 ELSE 2 * Pow2(k - 1)

RECURSIVE BitsOf(_)
BitsOf(n) == IF n = 0 THEN 0 ELSE 1 + BitsOf(n \div 2)
BitLen(a) == IF a = <<>> THEN 0 ELSE (Len(a) - 1) * LimbBits + BitsOf(a[Len(a)])

\* a * 2^k and the whole part of a / 2^k
ShlN(a, k) ==
    IF a = <<>> THEN a
    ELSE [i \in 1..(k \div LimbBits) |-> 0] \o MulSmall(a, Pow2(k % LimbBits))
ShrN(a, k) ==
    IF k \div LimbBits >= Len(a) THEN <<>>
    ELSE Trim(QuotRem(SubSeq(a, k \div LimbBits + 1, Len(a)), Pow2(k % LimbBits)).q)

\* A Number is sgn * man * 2^exp with man odd, or zero
Zero == [sgn |-> 1, man |-> <<>>, exp |-> 0]

RECURSIVE Canon(_, _, _)
Canon(sgn, man, exp) ==
    IF man = <<>> THEN Zero
    ELSE IF man[1] = 0 THEN Canon(sgn, Tail(man), exp + LimbBits)
    ELSE IF man[1] % 2 = 0 THEN Canon(sgn, ShrN(man, 1), exp + 1)
    ELSE [sgn |-> sgn, man |-> man, exp |-> exp]

\* the Number nearest to sgn * man * 2^exp, ties to the even significand
RoundF(sgn, man, exp) ==
    IF BitLen(man) <= SignificandBits THEN Canon(sgn, man, exp)
    ELSE LET k == BitLen(man) - SignificandBits
             q == ShrN(man, k)
             rem == SubN(man, ShlN(q, k))
             half == ShlN(<<1>>, k - 1)
             up == LessN(half, rem) \/ (rem = half /\ q[1] % 2 = 1)
         IN Canon(sgn, IF up THEN AddN(q, <<1>>) ELSE q, exp + k)

\* an integer literal, and n / d of two positive integers (d a digit); the
\* remainder of the division is kept as one more bit below the rounding
IntF(n) == IF n < 0 THEN Canon(-1, NatOf(-n), 0) ELSE Canon(1, NatOf(n), 0)
DivInt(n, d) ==
    LET qr == QuotRem(ShlN(NatOf(n), 70), d)
    IN RoundF(1, AddN(ShlN(Trim(qr.q), 1), IF qr.r = 0 THEN <<>> ELSE <<1>>), -71)

NegF(a) == IF a = Zero THEN a ELSE [a EXCEPT !.sgn = -a.sgn]

MulF(a, b) == RoundF(a.sgn * b.sgn, MulN(a.man, b.man), a.exp + b.exp)

AddF(a, b) ==
    LET e == Min(a.exp, b.exp)
        x == ShlN(a.man, a.exp - e)
        y == ShlN(b.man, b.exp - e)
    IN IF a.sgn = b.sgn THEN RoundF(a.sgn, AddN(x, y), e)
       ELSE IF LessN(x, y) THEN RoundF(b.sgn, SubN(y, x), e)
       ELSE RoundF(a.sgn, SubN(x, y), e)

SubF(a, b) == AddF(a, NegF(b))

LessF(a, b) == SubF(a, b).sgn = -1

----------------------------------------------------------------------------
\* The values two section tweens write, in the arithmetic of Numbers: the
\* torus starts in the pose the shipped script gives it, a tween to the pose
\* of fnArg.first runs a frame fnArg.elapsed ms after its start, a section
\* change to fnArg.second then snapshots what that frame wrote, and the
\* second tween runs its frame fnArg.late ms after its own start.

\* largest number of milliseconds after which the second section change comes
MaxElapsed == 8

\* elapsed times of a frame on which the second tween has run its duration
LateFrames == {1000, 1016}

\* the Number a literal of the poses denotes: the poses are tenths
NumberOf(fx) ==
    LET tenths == (10 * fx) \div Unit
    IN IF tenths < 0 THEN NegF(DivInt(-tenths, 10)) ELSE DivInt(tenths, 10)

\* position.x, position.y, position.z and scale of a pose
PoseNumbers(pose) ==
    <<NumberOf(pose.position[1]), NumberOf(pose.position[2]),
      NumberOf(pose.position[3]), NumberOf(pose.scale)>>

\* Math.min(elapsed / duration, 1)
progress(elapsed, duration) ==
    LET p == DivInt(elapsed, duration)
    IN IF LessF(IntF(1), p) THEN IntF(1) ELSE p

\* progress < 0.5 ? 2 * progress * progress : 1 - Math.pow(-2 * progress + 2, 2) / 2
\* with Math.pow(x, 2) taken as x * x
eased(p) ==
    IF LessF(p, DivInt(1, 2))
      THEN MulF(MulF(IntF(2), p), p)
      ELSE LET x == AddF(MulF(IntF(-2), p), IntF(2))
           IN SubF(IntF(1), MulF(MulF(x, x), DivInt(1, 2)))

\* start + (target - start) * eased
Interpolate(start, target, e) == AddF(start, MulF(SubF(target, start), e))

\* the frame of a tween from the values start to the pose of id, elapsed ms
\* after the tween began
FrameValues(start, id, elapsed) ==
    LET e == eased(progress(elapsed, SectionPose(id).duration))
        target == PoseNumbers(SectionPose(id))
    IN [k \in 1..4 |-> Interpolate(start[k], target[k], e)]

\* the two tweens of fnArg
ApplyTweens ==
    /\ fnResult = <<>>
    /\ LET snapshot == FrameValues(PoseNumbers(TorusOptions), fnArg.first, fnArg.elapsed)
       IN fnResult' = [snapshot |-> snapshot,
                       written |-> FrameValues(snapshot, fnArg.second, fnArg.late)]
    /\ UNCHANGED <<fnArg, domVars, loopVars, viewerPage, mainPage>>
    /\ UNCHANGED scenePage

InitTweenValues ==
    /\ present = {}
    /\ NoDom /\ NoLoop /\ NoViewer /\ NoGem /\ NoFilm /\ NoObject
    /\ NoNav /\ NoForm /\ NoImages
    /\ fnArg \in [first : Sections, elapsed : 0..MaxElapsed,
                  second : Sections, late : LateFrames]
    /\ fnResult = <<>>
    /\ NoScene

NextTweenValues == ApplyTweens

SpecTweenValues == InitTweenValues /\ [][NextTweenValues]_vars

\* C16: every tween started by animateModelTo terminates and, on the frame
\* on which elapsed >= duration, sets position and scale exactly to the
\* target values: here, the frame of the second tween writes the pose of
\* fnArg.second.
FinalFrameWritesTarget ==
    fnResult # <<>> => fnResult.written = PoseNumbers(SectionPose(fnArg.second))

----------------------------------------------------------------------------
\* The loading screen of the scene page when no model file is requested:
\* the scripts, createGeometry, removeModel and the timers of onLoad

InitScreen == InitScene /\ present = {"loading-screen"}

NextScreen ==
    \/ SceneScript
    \/ ModelLoaderScript
    \/ \E type \in Types, name \in Names, options \in OptionSets :
           createGeometry(type, name, options)
    \/ \E name \in Names : removeModel(name)
    \/ LoaderFadeOut
    \/ LoaderHide

SpecScreen == InitScreen /\ [][NextScreen]_vars

\* the scripts of the page run, and a timer that is due fires
FairScreen ==
    /\ WF_vars(SceneScript)
    /\ WF_vars(ModelLoaderScript)
    /\ WF_vars(LoaderFadeOut)
    /\ WF_vars(LoaderHide)

FairSpecScreen == SpecScreen /\ FairScreen

ScreenFaded  == "fade-out" \in classes["loading-screen"]
ScreenHidden == style["loading-screen"] = <<"display", "none">>

\* C21: with ModelLoader and no model file ever requested, the loading
\* screen eventually gets class 'fade-out' and then display 'none', in that
\* order, whether or not THREE.GLTFLoader is available.
LoadingScreenEventuallyHidden ==
    /\ [](ScreenHidden => ScreenFaded)
    /\ modelLoader ~> ScreenFaded
    /\ modelLoader ~> ScreenHidden

\* the same without THREE.GLTFLoader, where initLoader calls onLoad itself
HiddenWithoutGLTFLoader ==
    /\ [](ScreenHidden => ScreenFaded)
    /\ (modelLoader /\ ~hasGLTF) ~> (ScreenFaded /\ ScreenHidden)

----------------------------------------------------------------------------
\* the properties the floating and the rotation update write
FloatingAndRotation == AnimationProperties("floating") \cup AnimationProperties("rotation")

\* C22: after createFloatingAnimation(m) followed by createRotationAnimation(m)
\* for the same registered model m (the shipped default for 'mainTorus'),
\* every frame of the animation loop applies both the floating update
\* (position.y) and the rotation update to m.
LoopAppliesFloatingAndRotation ==
    [][(LoopCallback /\ "mainTorus" \in DOMAIN animations) =>
          \A p \in FloatingAndRotation :
              <<"animation", animations["mainTorus"].model, p>> \in written']_vars

----------------------------------------------------------------------------
\* C23: an image gets class 'loaded' only after its full-resolution source
\* finished preloading successfully; in every state where an image is
\* 'loaded' its src equals its former data-src value and its data-src
\* attribute is removed; an image whose preload failed never becomes 'loaded'
\* and keeps its data-src.
LoadedOnlyAfterPreload ==
    /\ [](\A i \in imgLoaded : imgSrc[i] = DataSrcOf(i) /\ i \notin dataSrc)
    /\ [](\A i \in imgFailed :
             i \notin imgLoaded /\ i \in dataSrc /\ imgSrc[i] = PlaceholderOf(i))
    /\ [][\A i \in Imgs : (i \in imgLoaded' /\ i \notin imgLoaded) => PreloadDone(i)]_vars

\* one image is loaded from its full source and another one failed
OneLoadedOneFailed ==
    \E i \in imgLoaded, j \in imgFailed :
        /\ imgSrc[i] = DataSrcOf(i)
        /\ i \notin dataSrc
        /\ j \in dataSrc

----------------------------------------------------------------------------
\* the burger shows the open state: it has class 'toggle'
BurgerToggled == "toggle" \in classes["burger"]

\* C24: starting from a closed menu, in every state reached by burger clicks
\* and nav-link clicks the nav list has class 'active' if and only if the
\* burger has class 'toggle'.
MenuAndBurgerAgree ==
    {"burger", "nav-links"} \subseteq present => (MenuOpen <=> BurgerToggled)

\* on a scrolled page, a burger click has opened the menu and toggled the
\* burger
MenuReopened ==
    /\ {"burger", "nav-links"} \subseteq present
    /\ MenuOpen /\ BurgerToggled
    /\ defaultPrevented = FALSE
    /\ pageYOffset > 0

----------------------------------------------------------------------------
\* C25: in the gemstone viewer, under every interleaving of Shift+wheel
\* events with the outcome of the model load, once a model is present every
\* material in gemMaterials has colour getGemColor(scrollProgress) for the
\* current scrollProgress.
GemsHaveCurrentColour ==
    model # "null" =>
        \A i \in DOMAIN gemMaterials : gemMaterials[i] = getGemColor(scrollProgress)

\* the model was loaded after some Shift+wheel events and another one
\* followed it: the materials carry the colour of the progress reached
GemsRecolouredAfterLoad ==
    /\ model # "null"
    /\ gemMaterials # <<>>
    /\ scrollProgress = 3 * ScrollStep
    /\ defaultPrevented
    /\ gemMaterials[1] = getGemColor(3 * ScrollStep)

----------------------------------------------------------------------------
\* C26: a Shift+wheel event whose deltaY is 0 leaves scrollProgress
\* (respectively filmThickness) unchanged; only deltaY > 0 increases it and
\* only deltaY < 0 decreases it.
ZeroDeltaChangesNothing ==
    [][\A deltaY \in {-100, 0, 100} :
          (GemWheel(TRUE, deltaY) \/ FilmWheel(TRUE, deltaY)) =>
             /\ deltaY = 0 => UNCHANGED <<scrollProgress, filmThickness>>
             /\ (scrollProgress' > scrollProgress \/ filmThickness' > filmThickness)
                   => deltaY > 0
             /\ (scrollProgress' < scrollProgress \/ filmThickness' < filmThickness)
                   => deltaY < 0]_vars

----------------------------------------------------------------------------
\* the objects the entries of the registry refer to
RegisteredObjects == {models[name].object : name \in DOMAIN models}

\* C27: after any sequence of createGeometry calls, loadModel completions and
\* removeModel calls, including ones that reuse a registered name, the
\* objects the loader added to the scene and did not remove are exactly the
\* objects the registry refers to.
SceneHoldsRegisteredObjects == sceneObjects = RegisteredObjects

----------------------------------------------------------------------------
\* C28: after removeModel(name), no later frame of the animation loop
\* mutates the removed object: a floating or rotation animation registered
\* under that name is no longer applied to it.
LoopLeavesRemovedObjects ==
    [][LoopCallback =>
          \A w \in written' : w[1] = "animation" => w[2] \in RegisteredObjects]_vars

====
